---- MODULE Spec2Model ----
(***************************************************************************)
(* Energy-Manager: the activity store of energy_tracker and the views     *)
(* that read and write it (energy_tracker/views.py, forms.py, utils.py,   *)
(* models.py).                                                             *)
(*                                                                         *)
(* Time is counted in seconds.  A name is a sequence of one-character      *)
(* strings, so that trimming, case folding and substring matching are      *)
(* computed and not assumed.  A query whose row order the database leaves  *)
(* open (equal sort keys) is modelled by the set of orders it may return.  *)
(***************************************************************************)
EXTENDS Integers, Sequences, FiniteSets, TLC

VARIABLES store, nextId, clock, request, response,
          accounts, session, profiles, pending

vars == <<store, nextId, clock, request, response, accounts, session, profiles, pending>>

(***************************************************************************)
(* Values                                                                  *)
(***************************************************************************)
Users == {"u1", "u2"}

\* The browsers, each with a session cookie of its own
Sessions == {"s1", "s2"}

\* The requests that may be in flight together
Requests == {"r1", "r2"}

Passwords == {"p", "q"}

\* accounts[username] of a username nobody signed up with
NoAccount == "none"

\* request.user of a session that is not logged in
AnonymousUser == "anonymous"

\* UserProfile(user=user): theme and notifications by their defaults
new_profile(user) == [user |-> user, theme |-> "light", notifications |-> TRUE]

\* Python's None: a missing form value, an empty aggregate.
None == 0 - 1

SecondsPerHour == 60 * 60

SecondsPerDay == 24 * SecondsPerHour

\* Activity.ENERGY_CHOICES
ENERGY_CHOICES == {-2, -1, 1, 2}

\* Activity.name max_length, ActivityForm.clean_name
MaxNameLength == 100

\* ActivityForm.clean: the longest duration in minutes
MaxDuration == 1440

\* duration_hours max_value, duration_minutes max_value
MaxHours == 24

MaxMinutes == 59

\* homepage_view / dashboard_view: recent_activities[:5]
RecentLimit == 5

\* autocomplete_activities_view: [:5]
SuggestLimit == 5

\* activity_history_view: Paginator(activities, 20)
PageSize == 20

(***************************************************************************)
(* Strings                                                                 *)
(***************************************************************************)
Min(S) == CHOOSE x \in S : \A y \in S : x <= y

Max(S) == CHOOSE x \in S : \A y \in S : y <= x

\* str.strip(): leading and trailing whitespace removed
strip(s) ==
    LET keep == {i \in 1..Len(s) : s[i] # " "}
    IN  IF keep = {} THEN <<>> ELSE SubSeq(s, Min(keep), Max(keep))

LowerChar(c) ==
    CASE c = "M" -> "m"
      [] c = "E" -> "e"
      [] c = "T" -> "t"
      [] OTHER -> c

\* str.lower(), the case folding behind __iexact and __icontains
lower(s) == [i \in 1..Len(s) |-> LowerChar(s[i])]

\* name__iexact=q
iexact(s, q) == lower(s) = lower(q)

\* name__icontains=q
icontains(s, q) ==
    \E i \in 0..(Len(s) - Len(q)) : SubSeq(lower(s), i + 1, i + Len(q)) = lower(q)

\* The code point of a character: the order of ORDER BY name.
CharCode(c) ==
    CASE c = " " -> 32
      [] c = "E" -> 69
      [] c = "M" -> 77
      [] c = "T" -> 84
      [] c = "e" -> 101
      [] c = "m" -> 109
      [] c = "t" -> 116
      [] c = "x" -> 120
      [] OTHER -> 0

\* s sorts before t in the database's binary collation
NameLess(s, t) ==
    \E i \in 1..(Len(s) + 1) :
        /\ \A j \in 1..(i - 1) : j <= Len(t) /\ s[j] = t[j]
        /\ \/ i = Len(s) + 1 /\ Len(t) > Len(s)
           \/ i <= Len(s) /\ i <= Len(t) /\ CharCode(s[i]) < CharCode(t[i])

(***************************************************************************)
(* The activity store (models.Activity) and its queries                    *)
(***************************************************************************)
\* A variant of OwnedBy without the filter on the user.
OwnedBy_any_user(S, user) == S

\* Activity.objects.filter(user=user)
OwnedBy(S, user) == {a \in S : a.user = user}

\* now.replace(hour=0, minute=0, second=0, microsecond=0)
StartOfDay(t) == t - (t % SecondsPerDay)

\* datetime.date(): the calendar day of an instant
DateOf(t) == t \div SecondsPerDay

\* activity_date__hour
HourOf(t) == (t % SecondsPerDay) \div SecondsPerHour

RECURSIVE SumOver(_, _)
\* Sum(field) over the rows of S; None over no rows
SumOver(S, field) ==
    IF S = {} THEN 0
    ELSE LET a == CHOOSE x \in S : TRUE
         IN  a[field] + SumOver(S \ {a}, field)

\* aggregate(total=Sum("duration"))["total"]
AggregateSum(S, field) == IF S = {} THEN None ELSE SumOver(S, field)

RECURSIVE GCD(_, _)
GCD(a, b) == IF b = 0 THEN a ELSE GCD(b, a % b)

Abs(x) == IF x < 0 THEN 0 - x ELSE x

\* A float that is the quotient num / den, den > 0: the pair in lowest terms.
Fraction(num, den) ==
    LET g == GCD(Abs(num), den) IN <<num \div g, den \div g>>

\* aggregate(Avg(field)), then float(): <<>> for None over no rows, else the
\* quotient as <<Fraction>>
AggregateAvg(S, field) ==
    IF S = {} THEN <<>> ELSE <<Fraction(SumOver(S, field), Cardinality(S))>>

\* a < b for two quotients
FractionLess(a, b) == a[1] * b[2] < b[1] * a[2]

\* round(num / den, digits) counted in units of 1 / scale (scale = 10 ^ digits):
\* to the nearest unit, a tie to the even one
Round(num, den, scale) ==
    LET n == num * scale
        q == n \div den
        r == n % den
    IN  IF 2 * r < den THEN q
        ELSE IF 2 * r > den THEN q + 1
        ELSE IF q % 2 = 0 THEN q ELSE q + 1

\* .values("name").annotate(count=Count("name")): one row per exact name
GroupByName(S) ==
    {[name |-> n, count |-> Cardinality({a \in S : a.name = n})] :
        n \in {a.name : a \in S}}

RECURSIVE OrderedPrefixes(_, _, _)
\* The first k rows of S under ORDER BY: <<a, b>> \in before says that a must
\* come before b.  Rows that neither must precede the other (equal sort keys)
\* come in an order the database chooses, so the result is a set of sequences.
OrderedPrefixes(S, before, k) ==
    IF S = {} \/ k = 0 THEN {<<>>}
    ELSE UNION {{<<a>> \o rest : rest \in OrderedPrefixes(S \ {a}, before, k - 1)} :
                    a \in {x \in S : \A y \in S : <<y, x>> \notin before}}

\* order_by("-activity_date")
ByActivityDateDesc(S) == {pair \in S \X S : pair[1].activity_date > pair[2].activity_date}

(***************************************************************************)
(* utils.get_canonical_activity_name                                       *)
(***************************************************************************)
\* A variant of get_canonical_activity_name that orders the variants by "count"
\* (ascending) and so returns a least frequent one.
get_canonical_activity_name_least(S, user, name_input) ==
    LET name == strip(name_input)
        matching == GroupByName({a \in OwnedBy(S, user) : iexact(a.name, name)})
    IN  IF matching # {}
        THEN {g.name : g \in {x \in matching : \A y \in matching : x.count <= y.count}}
        ELSE {name}

\* A variant of get_canonical_activity_name that does not strip its input.
get_canonical_activity_name_unstripped(S, user, name_input) ==
    LET matching == GroupByName({a \in OwnedBy(S, user) : iexact(a.name, strip(name_input))})
    IN  IF matching # {}
        THEN {g.name : g \in {x \in matching : \A y \in matching : y.count <= x.count}}
        ELSE {name_input}

\* A variant of get_canonical_activity_name that matches the name exactly
\* (name=name_input), not ignoring case.
get_canonical_activity_name_exact(S, user, name_input) ==
    LET name == strip(name_input)
        matching == GroupByName({a \in OwnedBy(S, user) : a.name = name})
    IN  IF matching # {}
        THEN {g.name : g \in {x \in matching : \A y \in matching : y.count <= x.count}}
        ELSE {name}

\* The names the function may return: the first row of the case-insensitive
\* matches grouped by exact name and ordered by "-count" (any row of maximal
\* count), or the stripped input when nothing matches.
get_canonical_activity_name(S, user, name_input) ==
    LET name == strip(name_input)
        matching == GroupByName({a \in OwnedBy(S, user) : iexact(a.name, name)})
    IN  IF matching # {}
        THEN {g.name : g \in {x \in matching : \A y \in matching : y.count <= x.count}}
        ELSE {name}

(***************************************************************************)
(* forms.ActivityForm                                                      *)
(***************************************************************************)
\* The submitted data: name, energy_level, duration_hours, duration_minutes
\* and activity_date (None when the field is not submitted).

\* A variant of clean_name without the check of the length.
clean_name_any_length(data) ==
    IF strip(data.name) = <<>> THEN {"name"} ELSE {}

\* CharField(max_length=100) followed by clean_name
clean_name(data) ==
    LET name == strip(data.name)
    IN  IF name = <<>> \/ Len(name) > MaxNameLength THEN {"name"} ELSE {}

\* IntegerField(choices=ENERGY_CHOICES)
clean_energy_level(data) ==
    IF data.energy_level \in ENERGY_CHOICES THEN {} ELSE {"energy_level"}

\* Activity.activity_date has no blank=True: the form field generated for it is
\* required, and a submission without it is in error before clean_activity_date
\* runs
activity_date_required(data) ==
    IF data.activity_date = None THEN {"activity_date"} ELSE {}

\* A variant of clean_activity_date that accepts a date in the future.
clean_activity_date_unchecked(data, now) == {}

\* clean_activity_date: not in the future
clean_activity_date(data, now) ==
    IF data.activity_date # None /\ data.activity_date > now
    THEN {"activity_date"} ELSE {}

\* IntegerField(min_value=0, max_value=24)
clean_duration_hours(data) ==
    IF data.duration_hours \in 0..MaxHours THEN {} ELSE {"duration_hours"}

\* IntegerField(min_value=0, max_value=59)
clean_duration_minutes(data) ==
    IF data.duration_minutes \in 0..MaxMinutes THEN {} ELSE {"duration_minutes"}

\* A variant of total_duration that counts an hour as 100 minutes.
total_duration_decimal(data) ==
    (IF clean_duration_hours(data) = {} THEN data.duration_hours ELSE 0) * 100
    + (IF clean_duration_minutes(data) = {} THEN data.duration_minutes ELSE 0)

\* ActivityForm.clean: total_duration; a field that failed its own validation
\* is absent from cleaned_data and counts as 0
total_duration(data) ==
    (IF clean_duration_hours(data) = {} THEN data.duration_hours ELSE 0) * 60
    + (IF clean_duration_minutes(data) = {} THEN data.duration_minutes ELSE 0)

\* ActivityForm.clean: the duration range
clean(data) ==
    IF total_duration(data) < 1 \/ total_duration(data) > MaxDuration
    THEN {"__all__"} ELSE {}

\* form.errors: the fields reported in error
form_errors(data, now) ==
    clean_name(data) \cup clean_energy_level(data)
    \cup activity_date_required(data) \cup clean_activity_date(data, now)
    \cup clean_duration_hours(data) \cup clean_duration_minutes(data) \cup clean(data)

\* form.is_valid()
is_valid(data, now) == form_errors(data, now) = {}

(***************************************************************************)
(* The views that write                                                    *)
(***************************************************************************)
\* What a step that is no request leaves in request and response.
NoRequest == [view |-> "none"]

NoResponse == [status |-> 0]

\* get_object_or_404's Http404
Http404 == [status |-> 404]

\* A variant of log_activity_name that stores the cleaned name as submitted.
log_activity_name_as_submitted(S, user, data) == {strip(data.name)}

\* log_activity_view: the name the new activity is stored under
log_activity_name(S, user, data) ==
    get_canonical_activity_name(S, user, strip(data.name))

\* log_activity_view: the activity that is saved
new_activity(id, user, name, data, now) ==
    [id |-> id, user |-> user, name |-> name,
     energy_level |-> data.energy_level,
     duration |-> total_duration(data),
     activity_date |-> IF data.activity_date = None THEN now ELSE data.activity_date,
     created_at |-> now, updated_at |-> now]

log_activity_view(user, method, is_ajax, data) ==
    /\ request' = [view |-> "log_activity", user |-> user, method |-> method,
                   is_ajax |-> is_ajax, data |-> data]
    /\ IF method = "POST" /\ is_valid(data, clock)
       THEN \E name \in log_activity_name(store, user, data) :
              LET activity == new_activity(nextId, user, name, data, clock)
              IN  /\ store' = store \cup {activity}
                  /\ nextId' = nextId + 1
                  /\ response' = [status |-> IF is_ajax THEN 200 ELSE 302,
                                  success |-> TRUE, errors |-> {},
                                  name |-> activity.name]
       ELSE /\ UNCHANGED <<store, nextId>>
            /\ response' = [status |-> IF method = "POST" /\ is_ajax THEN 400 ELSE 200,
                            success |-> FALSE,
                            errors |-> IF method = "POST"
                                       THEN form_errors(data, clock) ELSE {}]
    /\ UNCHANGED clock
    /\ UNCHANGED <<accounts, session, profiles, pending>>

\* A variant of get_object_or_404 that looks the activity up by pk alone.
get_object_or_404_any_owner(S, pk, user) == {a \in S : a.id = pk}

\* get_object_or_404(Activity, pk=pk, user=request.user): the rows found
get_object_or_404(S, pk, user) == {a \in S : a.id = pk /\ a.user = user}

\* ActivityForm.__init__: the duration fields shown for a stored activity
form_initial(activity) ==
    [duration_hours |-> activity.duration \div 60,
     duration_minutes |-> activity.duration % 60]

\* A variant of updated_activity that saves the canonical name, as the log does.
updated_activity_canonical(activity, data, now) ==
    [activity EXCEPT !.name = CHOOSE name \in get_canonical_activity_name(
                                                  store \ {activity}, activity.user,
                                                  data.name) : TRUE,
                     !.energy_level = data.energy_level,
                     !.activity_date = data.activity_date,
                     !.duration = total_duration(data),
                     !.updated_at = now]

\* edit_activity_view: the activity as saved, updated_at refreshed by auto_now
updated_activity(activity, data, now) ==
    [activity EXCEPT !.name = strip(data.name),
                     !.energy_level = data.energy_level,
                     !.activity_date = data.activity_date,
                     !.duration = total_duration(data),
                     !.updated_at = now]

edit_activity_view(user, pk, method, data) ==
    /\ request' = [view |-> "edit_activity", user |-> user, pk |-> pk,
                   method |-> method, data |-> data]
    /\ LET found == get_object_or_404(store, pk, user)
       IN  IF found = {}
           THEN /\ response' = Http404
                /\ UNCHANGED store
           ELSE LET activity == CHOOSE a \in found : TRUE
                IN  IF method = "POST" /\ is_valid(data, clock)
                    THEN /\ store' = (store \ {activity})
                                     \cup {updated_activity(activity, data, clock)}
                         /\ response' = [status |-> 302, success |-> TRUE, errors |-> {}]
                    ELSE /\ UNCHANGED store
                         /\ response' = [status |-> 200, success |-> FALSE,
                                         errors |-> IF method = "POST"
                                                    THEN form_errors(data, clock) ELSE {},
                                         initial |-> form_initial(activity)]
    /\ UNCHANGED <<nextId, clock>>
    /\ UNCHANGED <<accounts, session, profiles, pending>>

delete_activity_view(user, pk, method) ==
    /\ request' = [view |-> "delete_activity", user |-> user, pk |-> pk,
                   method |-> method]
    /\ LET found == get_object_or_404(store, pk, user)
       IN  IF found = {}
           THEN /\ response' = Http404
                /\ UNCHANGED store
           ELSE IF method = "POST"
                THEN /\ store' = store \ found
                     /\ response' = [status |-> 302, success |-> TRUE]
                ELSE /\ UNCHANGED store
                     /\ response' = [status |-> 200, success |-> FALSE]
    /\ UNCHANGED <<nextId, clock>>
    /\ UNCHANGED <<accounts, session, profiles, pending>>

\* A variant of bulk_delete_selection that selects by pk alone.
bulk_delete_selection_any_owner(S, user, activity_ids) ==
    {a \in S : a.id \in activity_ids}

\* Activity.objects.filter(pk__in=activity_ids, user=request.user)
bulk_delete_selection(S, user, activity_ids) ==
    {a \in S : a.id \in activity_ids /\ a.user = user}

bulk_delete_activities_view(user, method, activity_ids) ==
    /\ request' = [view |-> "bulk_delete_activities", user |-> user,
                   method |-> method, activity_ids |-> activity_ids]
    /\ LET activities == bulk_delete_selection(store, user, activity_ids)
           count == Cardinality(activities)
       IN  IF method = "POST" /\ activity_ids # {} /\ count > 0
           THEN /\ store' = store \ activities
                /\ response' = [status |-> 302, message |-> "deleted", count |-> count]
           ELSE /\ UNCHANGED store
                /\ response' = [status |-> 302,
                                message |-> IF method # "POST" THEN "none"
                                            ELSE IF activity_ids = {}
                                                 THEN "none selected"
                                                 ELSE "none found",
                                count |-> 0]
    /\ UNCHANGED <<nextId, clock>>
    /\ UNCHANGED <<accounts, session, profiles, pending>>

\* timezone.now() moves on between requests.
Tick(instants) ==
    /\ \E t \in instants : t > clock /\ clock' = t
    /\ request' = NoRequest
    /\ response' = NoResponse
    /\ UNCHANGED <<store, nextId>>
    /\ UNCHANGED <<accounts, session, profiles, pending>>

(***************************************************************************)
(* Requests served at the same time: log_activity_view and                 *)
(* edit_activity_view read the store, and write it in a later statement;   *)
(* no transaction or lock holds the two together                           *)
(***************************************************************************)
\* A variant of model_save whose UPDATE leaves the name column as it is.
model_save_without_name(S, instance, now) ==
    IF \E a \in S : a.id = instance.id
    THEN {IF a.id = instance.id THEN [instance EXCEPT !.name = a.name] ELSE a : a \in S}
    ELSE S \cup {[instance EXCEPT !.created_at = now]}

\* Model.save() of an instance that has a pk: an UPDATE of every column of the
\* row with that pk, and an INSERT when no row has it (auto_now_add then sets
\* created_at)
model_save(S, instance, now) ==
    IF \E a \in S : a.id = instance.id
    THEN {a \in S : a.id # instance.id} \cup {instance}
    ELSE S \cup {[instance EXCEPT !.created_at = now]}

\* edit_activity_view up to form.is_valid(): get_object_or_404 and the
\* validation of a POST that will be saved
edit_activity_load(r, user, pk, data) ==
    /\ pending[r] = NoRequest
    /\ LET found == get_object_or_404(store, pk, user)
       IN  /\ found # {}
           /\ is_valid(data, clock)
           /\ pending' = [pending EXCEPT ![r] =
                            [view |-> "edit_activity", user |-> user, pk |-> pk,
                             data |-> data, activity |-> CHOOSE a \in found : TRUE]]
    /\ request' = [view |-> "edit_activity_load", user |-> user, pk |-> pk,
                   method |-> "POST", data |-> data]
    /\ response' = NoResponse
    /\ UNCHANGED <<store, nextId, clock, accounts, session, profiles>>

\* edit_activity_view from updated_activity.save() on
edit_activity_save(r) ==
    /\ pending[r].view = "edit_activity"
    /\ store' = model_save(store,
                           updated_activity(pending[r].activity, pending[r].data, clock),
                           clock)
    /\ pending' = [pending EXCEPT ![r] = NoRequest]
    /\ request' = [view |-> "edit_activity", user |-> pending[r].user,
                   pk |-> pending[r].pk, method |-> "POST", data |-> pending[r].data]
    /\ response' = [status |-> 302, success |-> TRUE, errors |-> {}]
    /\ UNCHANGED <<nextId, clock, accounts, session, profiles>>

\* log_activity_view up to get_canonical_activity_name, for a valid POST
log_activity_lookup(r, user, data) ==
    /\ pending[r] = NoRequest
    /\ is_valid(data, clock)
    /\ \E name \in log_activity_name(store, user, data) :
          pending' = [pending EXCEPT ![r] =
                        [view |-> "log_activity", user |-> user, data |-> data,
                         name |-> name]]
    /\ request' = [view |-> "log_activity_lookup", user |-> user, method |-> "POST",
                   is_ajax |-> FALSE, data |-> data]
    /\ response' = NoResponse
    /\ UNCHANGED <<store, nextId, clock, accounts, session, profiles>>

\* log_activity_view from activity.save() on
log_activity_save(r) ==
    /\ pending[r].view = "log_activity"
    /\ LET activity == new_activity(nextId, pending[r].user, pending[r].name,
                                    pending[r].data, clock)
       IN  /\ store' = store \cup {activity}
           /\ nextId' = nextId + 1
           /\ response' = [status |-> 302, success |-> TRUE, errors |-> {},
                           name |-> activity.name]
    /\ pending' = [pending EXCEPT ![r] = NoRequest]
    /\ request' = [view |-> "log_activity", user |-> pending[r].user, method |-> "POST",
                   is_ajax |-> FALSE, data |-> pending[r].data]
    /\ UNCHANGED <<clock, accounts, session, profiles>>

(***************************************************************************)
(* The views that read                                                     *)
(***************************************************************************)
\* A variant of canonicalize that stores the name it was asked for when the
\* user has no activity of that name yet.
canonicalize_get_or_create(user, name_input) ==
    /\ request' = [view |-> "canonicalize", user |-> user, name |-> name_input]
    /\ \E name \in get_canonical_activity_name(store, user, name_input) :
          /\ response' = [status |-> 200, name |-> name]
          /\ IF \E a \in OwnedBy(store, user) : a.name = name
             THEN UNCHANGED <<store, nextId>>
             ELSE /\ store' = store \cup {[id |-> nextId, user |-> user, name |-> name,
                                           energy_level |-> 1, duration |-> 1,
                                           activity_date |-> clock, created_at |-> clock,
                                           updated_at |-> clock]}
                  /\ nextId' = nextId + 1
    /\ UNCHANGED clock
    /\ UNCHANGED <<accounts, session, profiles, pending>>

\* get_canonical_activity_name called on its own
canonicalize(user, name_input) ==
    /\ request' = [view |-> "canonicalize", user |-> user, name |-> name_input]
    /\ \E name \in get_canonical_activity_name(store, user, name_input) :
          response' = [status |-> 200, name |-> name]
    /\ UNCHANGED <<store, nextId, clock>>
    /\ UNCHANGED <<accounts, session, profiles, pending>>

\* A variant of homepage_today that takes the 24 hours up to now for today.
homepage_today_last_24_hours(S, user, now) ==
    {a \in OwnedBy(S, user) :
        /\ a.activity_date >= now - SecondsPerDay
        /\ a.activity_date <= now}

\* homepage_view: today_activities
homepage_today(S, user, now) ==
    {a \in OwnedBy(S, user) :
        /\ a.activity_date >= StartOfDay(now)
        /\ a.activity_date <= StartOfDay(now) + SecondsPerDay - 1}

\* A variant of recent_activities that orders by "-created_at", the order of
\* insertion.
recent_activities_by_created_at(today) ==
    OrderedPrefixes(today,
                    {pair \in today \X today : pair[1].created_at > pair[2].created_at},
                    RecentLimit)

\* today_activities.order_by("-activity_date")[:5]
recent_activities(today) ==
    OrderedPrefixes(today, ByActivityDateDesc(today), RecentLimit)

homepage_view(user) ==
    /\ request' = [view |-> "homepage", user |-> user]
    /\ LET today_activities == homepage_today(store, user, clock)
           today_avg == AggregateAvg(today_activities, "energy_level")
       IN  \E recent \in recent_activities(today_activities) :
              response' = [status |-> 200,
                           today_avg |-> IF today_avg # <<>>
                                         THEN <<Round(today_avg[1][1], today_avg[1][2], 10)>>
                                         ELSE <<>>,
                           recent_activities |-> recent,
                           activity_count |-> Cardinality(today_activities)]
    /\ UNCHANGED <<store, nextId, clock>>
    /\ UNCHANGED <<accounts, session, profiles, pending>>

\* dashboard_view: today_activities, filter(activity_date__date=today)
dashboard_today(S, user, now) ==
    {a \in OwnedBy(S, user) : DateOf(a.activity_date) = DateOf(now)}

\* A variant of category_minutes that counts an hour for each hour of the day
\* in which an activity of the category occurred.
category_minutes_by_hour_slot(today, category) ==
    60 * Cardinality({HourOf(a.activity_date) :
                        a \in {b \in today : b.energy_level = category}})

\* dashboard_view: the minutes that count for one energy category
category_minutes(today, category) ==
    LET total == AggregateSum({a \in today : a.energy_level = category}, "duration")
    IN  IF total = None THEN 0 ELSE total

\* dashboard_view: hours_per_category, in hundredths of an hour
hours_per_category(today) ==
    [category \in {-2, -1, 0, 1, 2} |-> Round(category_minutes(today, category), 60, 100)]

\* A variant of hourly_avg that gives 0 for an hour without activities.
hourly_avg_or_zero(today) ==
    [hour \in 0..23 |->
        LET avg_val == AggregateAvg({a \in today : HourOf(a.activity_date) = hour},
                                    "energy_level")
        IN  IF avg_val = <<>> THEN <<Fraction(0, 1)>> ELSE avg_val]

\* dashboard_view: hourly_avg, one entry per hour of the day
hourly_avg(today) ==
    [hour \in 0..23 |->
        AggregateAvg({a \in today : HourOf(a.activity_date) = hour}, "energy_level")]

\* dashboard_view: weekly_data, one row per day that has activities
weekly_data(S, user, now) ==
    LET rows == {a \in OwnedBy(S, user) : a.activity_date >= now - 6 * SecondsPerDay}
        OnDate(d) == {a \in rows : DateOf(a.activity_date) = d}
        days == {[date |-> d,
                  avg_energy |-> AggregateAvg(OnDate(d), "energy_level")[1],
                  count |-> Cardinality(OnDate(d))] :
                    d \in {DateOf(a.activity_date) : a \in rows}}
        ByDate == {pair \in days \X days : pair[1].date < pair[2].date}
    IN  CHOOSE w \in OrderedPrefixes(days, ByDate, Cardinality(days)) : TRUE

\* .values("name").annotate(avg_energy=Avg("energy_level"), count=Count("id"))
name_groups(S) ==
    {[name |-> n,
      avg_energy |-> AggregateAvg({a \in S : a.name = n}, "energy_level")[1],
      count |-> Cardinality({a \in S : a.name = n})] : n \in {a.name : a \in S}}

\* order_by("avg_energy")
ByAvgEnergyAsc(G) ==
    {pair \in G \X G : FractionLess(pair[1].avg_energy, pair[2].avg_energy)}

\* order_by("-avg_energy")
ByAvgEnergyDesc(G) ==
    {pair \in G \X G : FractionLess(pair[2].avg_energy, pair[1].avg_energy)}

\* A variant of draining_activities that groups the activities of one day only.
draining_activities_one_day(S, user) ==
    LET day == Max({DateOf(a.activity_date) : a \in S} \cup {0})
        groups == name_groups({a \in OwnedBy(S, user) :
                                  a.energy_level < 0 /\ DateOf(a.activity_date) = day})
    IN  OrderedPrefixes(groups, ByAvgEnergyAsc(groups), 3)

\* dashboard_view: draining_activities
draining_activities(S, user) ==
    LET groups == name_groups({a \in OwnedBy(S, user) : a.energy_level < 0})
    IN  OrderedPrefixes(groups, ByAvgEnergyAsc(groups), 3)

\* A variant of energizing_activities without the filter on the energy level.
energizing_activities_any_sign(S, user) ==
    LET groups == name_groups(OwnedBy(S, user))
    IN  OrderedPrefixes(groups, ByAvgEnergyDesc(groups), 3)

\* dashboard_view: energizing_activities
energizing_activities(S, user) ==
    LET groups == name_groups({a \in OwnedBy(S, user) : a.energy_level > 0})
    IN  OrderedPrefixes(groups, ByAvgEnergyDesc(groups), 3)

dashboard_view(user) ==
    /\ request' = [view |-> "dashboard", user |-> user]
    /\ LET today_activities == dashboard_today(store, user, clock)
           today_avg == AggregateAvg(today_activities, "energy_level")
       IN  \E recent \in recent_activities(today_activities),
              draining \in draining_activities(store, user),
              energizing \in energizing_activities(store, user) :
              response' = [status |-> 200,
                           today_count |-> Cardinality(today_activities),
                           today_avg |-> IF today_avg # <<>>
                                         THEN Round(today_avg[1][1], today_avg[1][2], 100)
                                         ELSE 0,
                           weekly_data |-> weekly_data(store, user, clock),
                           draining_activities |-> draining,
                           energizing_activities |-> energizing,
                           recent_activities |-> recent,
                           hourly_avg |-> hourly_avg(today_activities),
                           hours_per_category |-> hours_per_category(today_activities)]
    /\ UNCHANGED <<store, nextId, clock>>
    /\ UNCHANGED <<accounts, session, profiles, pending>>

\* order_by("-count", "name"): a total order on the rows of one grouping
ByCountDescThenName(G) ==
    {pair \in G \X G :
        \/ pair[1].count > pair[2].count
        \/ pair[1].count = pair[2].count /\ NameLess(pair[1].name, pair[2].name)}

\* order_by("-count")
ByCountDesc(G) == {pair \in G \X G : pair[1].count > pair[2].count}

\* A variant of matching_activities that orders by "-count" alone.
matching_activities_by_count_only(S, user, search_term) ==
    LET groups == GroupByName({a \in OwnedBy(S, user) : icontains(a.name, search_term)})
    IN  OrderedPrefixes(groups, ByCountDesc(groups), SuggestLimit)

\* autocomplete_activities_view: matching_activities
matching_activities(S, user, search_term) ==
    LET groups == GroupByName({a \in OwnedBy(S, user) : icontains(a.name, search_term)})
    IN  OrderedPrefixes(groups, ByCountDescThenName(groups), SuggestLimit)

\* autocomplete_activities_view: top_5_overall
top_5_overall(S, user) ==
    LET groups == GroupByName(OwnedBy(S, user))
    IN  OrderedPrefixes(groups, ByCountDesc(groups), SuggestLimit)

\* autocomplete_activities_view: the lists of suggestions the queries can give
suggestions(S, user, q) ==
    LET search_term == strip(q)
    IN  IF search_term = <<>> THEN {<<>>}
        ELSE {[i \in 1..Len(matching) |->
                 [name |-> matching[i].name,
                  count |-> matching[i].count,
                  is_top_5 |-> lower(matching[i].name)
                                 \in {lower(top[j].name) : j \in 1..Len(top)}]] :
              <<matching, top>> \in matching_activities(S, user, search_term)
                                      \X top_5_overall(S, user)}

autocomplete_activities_view(user, q) ==
    /\ request' = [view |-> "autocomplete_activities", user |-> user, q |-> q]
    /\ \E list \in suggestions(store, user, q) :
          response' = [status |-> 200, suggestions |-> list]
    /\ UNCHANGED <<store, nextId, clock>>
    /\ UNCHANGED <<accounts, session, profiles, pending>>

\* The value of a decimal digit, None for any other character.
DigitValue(c) ==
    CASE c = "0" -> 0 [] c = "1" -> 1 [] c = "2" -> 2 [] c = "3" -> 3
      [] c = "4" -> 4 [] c = "5" -> 5 [] c = "6" -> 6 [] c = "7" -> 7
      [] c = "8" -> 8 [] c = "9" -> 9 [] OTHER -> None

RECURSIVE DigitsValue(_)
DigitsValue(s) ==
    IF s = <<>> THEN 0
    ELSE 10 * DigitsValue(SubSeq(s, 1, Len(s) - 1)) + DigitValue(s[Len(s)])

\* int(text): <<n>> for an optional sign and digits within optional whitespace,
\* <<>> where int() raises ValueError
ParseInt(text) ==
    LET t == strip(text)
        signed == t # <<>> /\ t[1] \in {"-", "+"}
        digits == IF signed THEN Tail(t) ELSE t
    IN  IF digits = <<>> \/ \E i \in 1..Len(digits) : DigitValue(digits[i]) = None
        THEN <<>>
        ELSE <<IF signed /\ t[1] = "-" THEN 0 - DigitsValue(digits)
               ELSE DigitsValue(digits)>>

\* request.GET.get("view", "day"): view is <<>> for a request without the
\* parameter, else <<its value>>
history_view(view) == IF view = <<>> THEN "day" ELSE view[1]

\* A variant of history_start whose week starts 6 days before now.
history_start_six_days(view, now) ==
    IF view = "day" THEN StartOfDay(now)
    ELSE IF view = "week" THEN now - 6 * SecondsPerDay
    ELSE now - 30 * SecondsPerDay

\* activity_history_view: the start of the time window
history_start(view, now) ==
    IF view = "day" THEN StartOfDay(now)
    ELSE IF view = "week" THEN now - 7 * SecondsPerDay
    ELSE now - 30 * SecondsPerDay

\* activity_history_view: energy_filter as it reaches the context, <<>> for None
history_energy_filter(energy) == IF energy = <<>> THEN <<>> ELSE ParseInt(energy)

\* activity_history_view: the filtered activities
history_activities(S, user, energy, q, view, now) ==
    LET energy_filter == history_energy_filter(energy)
    IN  {a \in OwnedBy(S, user) :
            /\ energy_filter # <<>> => a.energy_level = energy_filter[1]
            /\ a.activity_date >= history_start(history_view(view), now)
            /\ strip(q) # <<>> => icontains(a.name, strip(q))}

\* Paginator.num_pages
num_pages(count) ==
    LET hits == IF count > 1 THEN count ELSE 1
    IN  (hits + PageSize - 1) \div PageSize

\* A variant of get_page_number that serves the first page for every number
\* that is not the number of a page.
get_page_number_first_by_default(page, count) ==
    LET number == ParseInt(page)
    IN  IF number = <<>> THEN 1
        ELSE IF number[1] < 1 \/ number[1] > num_pages(count) THEN 1
        ELSE number[1]

\* Paginator.get_page: the page number served for the submitted one
get_page_number(page, count) ==
    LET number == ParseInt(page)
    IN  IF number = <<>> THEN 1
        ELSE IF number[1] < 1 \/ number[1] > num_pages(count) THEN num_pages(count)
        ELSE number[1]

\* activity_history_view: the contexts the queries can give
history_context(S, user, energy, q, view, page, now) ==
    LET activities == history_activities(S, user, energy, q, view, now)
        count == Cardinality(activities)
        number == get_page_number(page, count)
        bottom == (number - 1) * PageSize
        top == IF bottom + PageSize >= count THEN count ELSE bottom + PageSize
    IN  {[status |-> 200,
          object_list |-> SubSeq(ordered, bottom + 1, top),
          number |-> number,
          num_pages |-> num_pages(count),
          count |-> count,
          energy_filter |-> history_energy_filter(energy),
          q |-> strip(q),
          view |-> history_view(view)] :
         ordered \in OrderedPrefixes(activities, ByActivityDateDesc(activities), top)}

activity_history_view(user, energy, q, view, page) ==
    /\ request' = [view |-> "activity_history", user |-> user, energy |-> energy,
                   q |-> q, window |-> view, page |-> page]
    /\ \E context \in history_context(store, user, energy, q, view, page, clock) :
          response' = context
    /\ UNCHANGED <<store, nextId, clock>>
    /\ UNCHANGED <<accounts, session, profiles, pending>>

(***************************************************************************)
(* Accounts, sessions and profiles (signup, login, logout, login_required, *)
(* settings, account, change password; models.UserProfile and its signal)  *)
(***************************************************************************)
\* request.user: the user the session is logged in as
request_user(s) == session[s]

is_authenticated(s) == request_user(s) # AnonymousUser

\* redirect to the login page
RedirectToLogin == [status |-> 302, location |-> "login"]

\* A variant of login_required that lets every request through.
login_required_open(s, view, view_func) == view_func

\* @login_required: the view for a logged in user, the login page for others
login_required(s, view, view_func) ==
    IF is_authenticated(s)
    THEN view_func
    ELSE /\ request' = [view |-> view, user |-> AnonymousUser, session |-> s]
         /\ response' = RedirectToLogin
         /\ UNCHANGED <<store, nextId, clock, accounts, session, profiles, pending>>

\* UserProfile.objects.create(user=user); user is unique (OneToOneField), a
\* second row for the user is an IntegrityError
profile_create(P, user) ==
    IF \E p \in P : p.user = user THEN P ELSE P \cup {new_profile(user)}

\* UserProfile.objects.get_or_create(user=user)
profile_get_or_create(P, user) ==
    IF \E p \in P : p.user = user THEN P ELSE profile_create(P, user)

\* A variant of create_or_update_user_profile that acts on creation only.
create_or_update_user_profile_created_only(P, instance, created) ==
    IF created THEN profile_create(P, instance) ELSE P

\* post_save of the user model
create_or_update_user_profile(P, instance, created) ==
    IF created THEN profile_create(P, instance) ELSE profile_get_or_create(P, instance)

\* SignUpForm (UserCreationForm): a new username and the password twice
signup_is_valid(username, password1, password2) ==
    accounts[username] = NoAccount /\ password1 = password2

\* login(request, user): the session is the user's; update_last_login saves
\* the user, which sends post_save
login(P, user) == create_or_update_user_profile(P, user, FALSE)

signup_view(s, method, username, password1, password2) ==
    /\ request' = [view |-> "signup", user |-> request_user(s), session |-> s,
                   method |-> method, username |-> username]
    /\ IF is_authenticated(s)
       THEN /\ response' = [status |-> 302, location |-> "homepage", success |-> FALSE]
            /\ UNCHANGED <<accounts, session, profiles>>
       ELSE IF method = "POST" /\ signup_is_valid(username, password1, password2)
            THEN /\ accounts' = [accounts EXCEPT ![username] = password1]
                 /\ profiles' = login(create_or_update_user_profile(profiles, username, TRUE),
                                      username)
                 /\ session' = [session EXCEPT ![s] = username]
                 /\ response' = [status |-> 302, location |-> "homepage",
                                 success |-> TRUE]
            ELSE /\ response' = [status |-> 200, location |-> "signup", success |-> FALSE]
                 /\ UNCHANGED <<accounts, session, profiles>>
    /\ UNCHANGED <<store, nextId, clock, pending>>

\* authenticate(request, username=username, password=password)
authenticate(username, password) ==
    accounts[username] # NoAccount /\ accounts[username] = password

login_view(s, method, username, password) ==
    /\ request' = [view |-> "login", user |-> request_user(s), session |-> s,
                   method |-> method, username |-> username]
    /\ IF is_authenticated(s)
       THEN /\ response' = [status |-> 302, location |-> "homepage", success |-> FALSE]
            /\ UNCHANGED <<session, profiles>>
       ELSE IF method = "POST" /\ authenticate(username, password)
            THEN /\ profiles' = login(profiles, username)
                 /\ session' = [session EXCEPT ![s] = username]
                 /\ response' = [status |-> 302, location |-> "homepage",
                                 success |-> TRUE]
            ELSE /\ response' = [status |-> 200, location |-> "login", success |-> FALSE]
                 /\ UNCHANGED <<session, profiles>>
    /\ UNCHANGED <<store, nextId, clock, accounts, pending>>

logout_view(s) ==
    /\ request' = [view |-> "logout", user |-> request_user(s), session |-> s]
    /\ session' = [session EXCEPT ![s] = AnonymousUser]
    /\ response' = RedirectToLogin
    /\ UNCHANGED <<store, nextId, clock, accounts, profiles, pending>>

\* UserProfile.THEME_CHOICES
THEME_CHOICES == {"light", "dark"}

\* SettingsForm: theme is one of the choices; an unchecked box is False
settings_is_valid(theme) == theme \in THEME_CHOICES

settings_view(user, method, theme, notifications) ==
    /\ request' = [view |-> "settings", user |-> user, method |-> method,
                   theme |-> theme, notifications |-> notifications]
    /\ LET found == profile_get_or_create(profiles, user)
           profile == CHOOSE p \in found : p.user = user
           created == found # profiles
       IN  IF method = "POST" /\ settings_is_valid(theme)
           THEN /\ profiles' = (found \ {profile})
                               \cup {[profile EXCEPT !.theme = theme,
                                                     !.notifications = notifications]}
                /\ response' = [status |-> 302, location |-> "dashboard",
                                created |-> created]
           ELSE /\ profiles' = found
                /\ response' = [status |-> 200, location |-> "settings",
                                created |-> created]
    /\ UNCHANGED <<store, nextId, clock, accounts, session, pending>>

account_view(user) ==
    /\ request' = [view |-> "account", user |-> user]
    /\ response' = [status |-> 200, location |-> "account",
                    profile |-> {p \in profiles : p.user = user}]
    /\ UNCHANGED <<store, nextId, clock, accounts, session, profiles, pending>>

\* PasswordChangeForm: the old password and the new one twice
change_password_is_valid(user, old_password, new_password1, new_password2) ==
    /\ user # AnonymousUser
    /\ accounts[user] = old_password
    /\ new_password1 = new_password2

\* change_password_view; form.save() saves the user, which sends post_save; the
\* new password ends the user's other sessions, update_session_auth_hash keeps
\* this one
change_password_view(s, method, old_password, new_password1, new_password2) ==
    LET user == request_user(s)
    IN  /\ request' = [view |-> "change_password", user |-> user, session |-> s,
                       method |-> method]
        /\ IF /\ method = "POST"
              /\ change_password_is_valid(user, old_password, new_password1, new_password2)
           THEN /\ accounts' = [accounts EXCEPT ![user] = new_password1]
                /\ profiles' = create_or_update_user_profile(profiles, user, FALSE)
                /\ session' = [t \in Sessions |->
                                 IF t # s /\ session[t] = user THEN AnonymousUser
                                                               ELSE session[t]]
                /\ response' = [status |-> 302, location |-> "account"]
           ELSE /\ response' = [status |-> 200, location |-> "change_password"]
                /\ UNCHANGED <<accounts, session, profiles>>
        /\ UNCHANGED <<store, nextId, clock, pending>>

\* user.save() of a user that exists, outside the views
user_save(user) ==
    /\ accounts[user] # NoAccount
    /\ request' = [view |-> "user_save", user |-> user]
    /\ profiles' = create_or_update_user_profile(profiles, user, FALSE)
    /\ response' = [status |-> 0, created |-> \A p \in profiles : p.user # user]
    /\ UNCHANGED <<store, nextId, clock, accounts, session, pending>>

\* user.profile.delete(), outside the views
profile_delete(user) ==
    /\ \E p \in profiles : p.user = user
    /\ request' = [view |-> "profile_delete", user |-> user]
    /\ profiles' = {p \in profiles : p.user # user}
    /\ response' = NoResponse
    /\ UNCHANGED <<store, nextId, clock, accounts, session, pending>>

(***************************************************************************)
(* Inputs                                                                  *)
(***************************************************************************)
\* 12:00:00 of day 0, one second later, 12:00:00 of day 1
Noon == 12 * SecondsPerHour

NoonPlus1 == Noon + 1

NextNoon == SecondsPerDay + Noon

\* Names, as sequences of characters
Me == <<"M", "e">>

me == <<"m", "e">>

ME == <<"M", "E">>

mE == <<"m", "E">>

PaddedME == <<" ", "M", "E", " ">>

Empty == <<>>

Blank == <<" ", " ">>

\* A form submission
FormData(name, energy_level, hours, minutes, activity_date) ==
    [name |-> name, energy_level |-> energy_level, duration_hours |-> hours,
     duration_minutes |-> minutes, activity_date |-> activity_date]

\* A form submission that is valid at any time from Noon on
ValidData(name) == FormData(name, 1, 0, 30, Noon)

\* Both users have signed up and are logged in, each in a browser of their own,
\* their profiles as the signal created them; no request is in flight.
SignedIn ==
    /\ accounts = [user \in Users |-> "p"]
    /\ session = [s \in Sessions |-> IF s = "s1" THEN "u1" ELSE "u2"]
    /\ profiles = {new_profile(user) : user \in Users}
    /\ pending = [r \in Requests |-> NoRequest]

TypeOK ==
    /\ nextId \in Nat
    /\ clock \in Nat
    /\ \A a \in store : a.id \in 1..(nextId - 1) /\ a.user \in Users
    /\ \A a, b \in store : a.id = b.id => a = b

Init ==
    /\ store = {}
    /\ nextId = 1
    /\ clock = Noon
    /\ request = NoRequest
    /\ response = NoResponse
    /\ SignedIn

(***************************************************************************)
(* SpecCanon: names that differ in case and padding, logged, renamed,      *)
(* deleted and looked up by two users                                      *)
(***************************************************************************)
MaxCanonActs == 3

CanonLogNames == {Me, me, PaddedME}

CanonEditNames == {me, ME}

CanonLookupNames == {ME, mE, <<" ", "m", "e", " ">>, Empty, Blank, <<"e">>, <<" ", "e", "t">>}

CanonLog ==
    \E user \in Users, name \in CanonLogNames :
        /\ nextId <= MaxCanonActs
        /\ log_activity_view(user, "POST", FALSE, ValidData(name))

CanonEdit ==
    \E user \in Users, pk \in 1..MaxCanonActs, name \in CanonEditNames :
        edit_activity_view(user, pk, "POST", ValidData(name))

CanonDelete ==
    \E user \in Users, pk \in 1..MaxCanonActs :
        delete_activity_view(user, pk, "POST")

CanonLookup ==
    \E user \in Users, name \in CanonLookupNames : canonicalize(user, name)

NextCanon == CanonLog \/ CanonEdit \/ CanonDelete \/ CanonLookup

SpecCanon == Init /\ [][NextCanon]_vars

(***************************************************************************)
(* Properties of the canonical name                                        *)
(***************************************************************************)
RECURSIVE Trimmed(_)
\* s without its leading and trailing whitespace
Trimmed(s) ==
    IF s = <<>> THEN s
    ELSE IF Head(s) = " " THEN Trimmed(Tail(s))
    ELSE IF s[Len(s)] = " " THEN Trimmed(SubSeq(s, 1, Len(s) - 1))
    ELSE s

\* s and t are the same string up to the case of their letters
SameIgnoringCase(s, t) ==
    Len(s) = Len(t) /\ \A i \in 1..Len(s) : LowerChar(s[i]) = LowerChar(t[i])

\* The exact names under which user has stored, in S, the name `input` (trimmed,
\* case ignored), and how often user has stored a name
CaseVariants(S, user, input) ==
    {a.name : a \in {b \in S : b.user = user /\ SameIgnoringCase(b.name, Trimmed(input))}}

Occurrences(S, user, name) == Cardinality({a \in S : a.user = user /\ a.name = name})

\* name is what canonicalize(user, input) may return on S
IsCanonical(name, S, user, input) ==
    IF CaseVariants(S, user, input) = {}
    THEN name = Trimmed(input)
    ELSE /\ name \in CaseVariants(S, user, input)
         /\ \A v \in CaseVariants(S, user, input) :
                Occurrences(S, user, v) <= Occurrences(S, user, name)

\* C3: when the owner has activities whose name equals the trimmed input up to
\* case, canonicalize returns one of those stored variants, and one whose number
\* of occurrences is maximal among them (so the single most frequent variant
\* when there is one).
C3_MostFrequentVariant ==
    (request.view = "canonicalize"
        /\ CaseVariants(store, request.user, request.name) # {})
    => /\ response.name \in CaseVariants(store, request.user, request.name)
       /\ \A v \in CaseVariants(store, request.user, request.name) :
              Occurrences(store, request.user, v)
                  <= Occurrences(store, request.user, response.name)

\* Counts {Me: 2, me: 1} and the input "ME" give "Me".
C3_Witness ==
    /\ request.view = "canonicalize"
    /\ request.name = ME
    /\ Occurrences(store, request.user, Me) = 2
    /\ Occurrences(store, request.user, me) = 1
    /\ response.name = Me

\* C4: when the owner has no activity whose name matches the trimmed input up to
\* case, canonicalize returns the input with its leading and trailing whitespace
\* removed and nothing else changed; the empty input gives the empty name.
C4_NoMatchReturnsTrimmedInput ==
    /\ (request.view = "canonicalize"
            /\ CaseVariants(store, request.user, request.name) = {})
       => response.name = Trimmed(request.name)
    /\ (request.view = "canonicalize" /\ request.name = Empty)
       => response.name = Empty

\* A padded name the owner never stored, while the other user stores a variant.
C4_Witness ==
    /\ request.view = "canonicalize"
    /\ request.name = <<" ", "m", "e", " ">>
    /\ CaseVariants(store, request.user, request.name) = {}
    /\ \E other \in Users \ {request.user} :
          CaseVariants(store, other, request.name) # {}
    /\ response.name = me

\* C5: a successful log by user with submitted name n adds exactly one activity,
\* owned by user and with a fresh id, whose name is canonicalize(user, n) on the
\* store as it was before the insert.
C5_LogStoresCanonicalName ==
    [][(request'.view = "log_activity" /\ response'.success)
        => \E a \in store' :
              /\ a \notin store
              /\ store' = store \cup {a}
              /\ \A b \in store : b.id # a.id
              /\ a.user = request'.user
              /\ IsCanonical(a.name, store, request'.user, request'.data.name)]_vars

\* A log whose stored name is an existing casing and not the submitted one.
C5_Witness ==
    /\ request.view = "log_activity"
    /\ response.success
    /\ response.name # Trimmed(request.data.name)
    /\ Occurrences(store, request.user, response.name) >= 2

(***************************************************************************)
(* SpecRecent: activities logged after the fact, on a day that already     *)
(* has four, and the lists of recent activities                            *)
(***************************************************************************)
MaxRecentLogs == 3

\* Day 1: 10:00:00, 11:00:00 and, the time of the requests, 12:00:00
Early == NextNoon - 2 * SecondsPerHour

Mid == NextNoon - SecondsPerHour

\* Four activities of u1, logged between 11:10 and 11:45 of day 1, not in the
\* order in which they occurred; the second was logged for yesterday
LoggedEarlier(id, activity_date, now) ==
    new_activity(id, "u1", Me, FormData(Me, 1, 0, 30, activity_date), now)

InitRecent ==
    /\ store = {LoggedEarlier(1, Mid + 600, Mid + 600),
                LoggedEarlier(2, Noon, Mid + 1200),
                LoggedEarlier(3, Mid, Mid + 1800),
                LoggedEarlier(4, Mid, Mid + 2700)}
    /\ nextId = 5
    /\ clock = NextNoon
    /\ request = NoRequest
    /\ response = NoResponse
    /\ SignedIn

RecentLog ==
    \E user \in Users, activity_date \in {Noon, Early, NextNoon} :
        /\ nextId <= 4 + MaxRecentLogs
        /\ user = "u2" => activity_date = NextNoon
        /\ log_activity_view(user, "POST", FALSE, FormData(Me, 1, 0, 30, activity_date))

RecentHomepage == \E user \in Users : homepage_view(user)

RecentDashboard == \E user \in Users : dashboard_view(user)

NextRecent == RecentLog \/ RecentHomepage \/ RecentDashboard

SpecRecent == InitRecent /\ [][NextRecent]_vars

\* The owner's activities that occurred on the calendar day of `now`
OfTheDay(S, user, now) ==
    {a \in S : a.user = user
               /\ a.activity_date \div SecondsPerDay = now \div SecondsPerDay}

\* C2: recent_activities of the homepage and of the dashboard is the owner's
\* activities of the current day sorted by activity_date descending and cut to
\* the first 5: its entries are distinct activities of the owner and the day,
\* there are min(5, number of such activities) of them, they come latest first,
\* and no activity left out occurred later than one that is listed.  Nothing in
\* this refers to the order of insertion.
C2_RecentByOccurredAt ==
    request.view \in {"homepage", "dashboard"}
    => LET recent == response.recent_activities
           today == OfTheDay(store, request.user, clock)
           listed == {recent[i] : i \in 1..Len(recent)}
       IN  /\ listed \subseteq today
           /\ Cardinality(listed) = Len(recent)
           /\ Len(recent) = IF Cardinality(today) < 5 THEN Cardinality(today) ELSE 5
           /\ \A i, j \in 1..Len(recent) :
                  i < j => recent[i].activity_date >= recent[j].activity_date
           /\ \A a \in today \ listed :
                  \A i \in 1..Len(recent) : recent[i].activity_date >= a.activity_date

\* The activity inserted last occurred before five others of the day and is not
\* listed, on the homepage.
C2_Witness ==
    /\ request.view = "homepage"
    /\ Len(response.recent_activities) = 5
    /\ \E a \in OfTheDay(store, request.user, clock) :
          /\ \A b \in store : b.id <= a.id
          /\ Cardinality({b \in OfTheDay(store, request.user, clock) :
                            b.activity_date > a.activity_date}) >= 5
          /\ \A i \in 1..5 : response.recent_activities[i] # a

(***************************************************************************)
(* SpecDash: activities of several energy levels, durations, hours and     *)
(* days, and the dashboard                                                 *)
(***************************************************************************)
MaxDashLogs == 3

\* 12:30:00 of day 1, the time of the requests
HalfPastNoon == NextNoon + 1800

DashData ==
    {FormData(Me, 2, 3, 0, NextNoon),
     FormData(Me, 2, 0, 20, HalfPastNoon),
     FormData(Me, -1, 0, 15, HalfPastNoon),
     FormData(Me, 2, 2, 0, Noon),
     FormData(Me, 1, 24, 0, Early),
     FormData(Me, -2, 0, 7, Mid)}

InitDash ==
    /\ store = {}
    /\ nextId = 1
    /\ clock = HalfPastNoon
    /\ request = NoRequest
    /\ response = NoResponse
    /\ SignedIn

DashLog ==
    \E user \in Users, data \in DashData :
        /\ nextId <= MaxDashLogs
        /\ user = "u2" => data = FormData(Me, 2, 3, 0, NextNoon)
        /\ log_activity_view(user, "POST", FALSE, data)

DashDashboard == \E user \in Users : dashboard_view(user)

NextDash == DashLog \/ DashDashboard

SpecDash == InitDash /\ [][NextDash]_vars

RECURSIVE MinutesUpTo(_, _, _, _, _)
\* The minutes of the activities with an id up to n that user owns, that
\* occurred on the calendar day of `now` and that have energy level c
MinutesUpTo(n, S, user, now, c) ==
    IF n = 0 THEN 0
    ELSE LET counted == {a \in S : /\ a.id = n
                                   /\ a.user = user
                                   /\ a.activity_date \div SecondsPerDay
                                        = now \div SecondsPerDay
                                   /\ a.energy_level = c}
         IN  (IF counted = {} THEN 0 ELSE (CHOOSE a \in counted : TRUE).duration)
             + MinutesUpTo(n - 1, S, user, now, c)

\* hundredths is minutes / 60 rounded to two decimals: the nearest hundredth of
\* an hour (minutes / 60 is never halfway between two hundredths)
IsHoursRounded(hundredths, minutes) ==
    /\ 60 * hundredths - 100 * minutes <= 30
    /\ 100 * minutes - 60 * hundredths <= 30

\* C10: hours_per_category has exactly the keys -2, -1, 0, 1, 2, and the value
\* of key c is the sum of the durations of the owner's activities of the current
\* day with energy level c, divided by 60 and rounded to two decimals: 0 for a
\* category without activity, every activity with its full duration whatever
\* its hour, nothing from other days, levels or owners.
C10_HoursPerCategory ==
    request.view = "dashboard"
    => /\ DOMAIN response.hours_per_category = {-2, -1, 0, 1, 2}
       /\ \A c \in {-2, -1, 0, 1, 2} :
              IsHoursRounded(response.hours_per_category[c],
                             MinutesUpTo(nextId - 1, store, request.user, clock, c))

\* 3 h and 20 min at level 2 in the same hour give 3.33 and level 1 stays 0,
\* while another user's activity of level 2 is in the store.
C10_Witness ==
    /\ request.view = "dashboard"
    /\ response.hours_per_category[2] = 333
    /\ response.hours_per_category[1] = 0
    /\ \E a \in store : a.user # request.user /\ a.energy_level = 2

\* Yesterday's two hours at level 2 do not count.
C10_WitnessOtherDay ==
    /\ request.view = "dashboard"
    /\ response.hours_per_category[2] = 300
    /\ \E a \in store : /\ a.user = request.user
                        /\ a.energy_level = 2
                        /\ a.activity_date = Noon

(***************************************************************************)
(* SpecOwner: two users who log, and edit, delete and bulk-delete by id,    *)
(* their own activities and each other's                                   *)
(***************************************************************************)
MaxOwnerActs == 3

OwnerLog ==
    \E user \in Users, method \in {"POST", "GET"} :
        /\ method = "POST" => nextId <= MaxOwnerActs
        /\ log_activity_view(user, method, FALSE, ValidData(Me))

OwnerEdit ==
    \E user \in Users, pk \in 1..MaxOwnerActs, method \in {"POST", "GET"} :
        edit_activity_view(user, pk, method, ValidData(mE))

OwnerDelete ==
    \E user \in Users, pk \in 1..MaxOwnerActs, method \in {"POST", "GET"} :
        delete_activity_view(user, pk, method)

OwnerBulkDelete ==
    \E user \in Users, activity_ids \in SUBSET (1..MaxOwnerActs),
       method \in {"POST", "GET"} :
        /\ method = "GET" => activity_ids = {}
        /\ bulk_delete_activities_view(user, method, activity_ids)

NextOwner == OwnerLog \/ OwnerEdit \/ OwnerDelete \/ OwnerBulkDelete

SpecOwner == Init /\ [][NextOwner]_vars

\* C8: an edit or delete request for an id under which the requesting user owns
\* no activity, whether the id belongs to another user or to nobody, is answered
\* by the same not-found response and leaves the store as it was.
C8_ForeignIsNotFound ==
    [][(request'.view \in {"edit_activity", "delete_activity"}
          /\ ~\E a \in store : a.id = request'.pk /\ a.user = request'.user)
        => (response' = [status |-> 404] /\ store' = store)]_vars

\* A valid edit submitted for another user's activity was answered not-found.
C8_Witness ==
    /\ request.view = "edit_activity"
    /\ request.method = "POST"
    /\ \E a \in store : /\ a.id = request.pk
                        /\ a.user # request.user
                        /\ a.name # request.data.name
    /\ response.status = 404

\* C9: a bulk delete by user with the submitted ids removes, in one step,
\* exactly the activities whose id is submitted and whose owner is the user;
\* every other activity stays as it was, and a request that is not a POST or
\* has no ids changes nothing.
C9_BulkDeleteOwnedOnly ==
    [][request'.view = "bulk_delete_activities"
        => store' = IF request'.method = "POST"
                    THEN {a \in store : ~(a.id \in request'.activity_ids
                                          /\ a.user = request'.user)}
                    ELSE store]_vars

\* Two of the user's activities were deleted while another user's activity,
\* whose id was submitted too, is still there.
C9_Witness ==
    /\ request.view = "bulk_delete_activities"
    /\ request.method = "POST"
    /\ response.count = 2
    /\ \E a \in store : a.id \in request.activity_ids /\ a.user # request.user

(***************************************************************************)
(* SpecForm: valid and invalid submissions of the activity form, to log    *)
(* and to edit, around a tick of the clock                                 *)
(***************************************************************************)
MaxFormActs == 2

\* Names of 100 and of 101 characters
Long100 == [i \in 1..100 |-> "x"]

Long101 == [i \in 1..101 |-> "x"]

\* NoonPlus1 is in the future at Noon and is now after the tick.
FormValid ==
    {FormData(Me, 1, 0, 30, Noon),
     FormData(PaddedME, -2, 24, 0, Noon),
     FormData(<<" ">> \o Long100, 2, 0, 1, NoonPlus1)}

FormInvalid ==
    {FormData(Me, 0, 0, 30, Noon),
     FormData(Me, 3, 0, 30, Noon),
     FormData(Me, 1, 0, 0, Noon),
     FormData(Me, 1, 24, 1, Noon),
     FormData(Me, 1, 25, 30, Noon),
     FormData(Me, 1, 0, 60, Noon),
     FormData(Me, 1, 0, 30, NextNoon),
     FormData(Empty, 1, 0, 30, Noon),
     FormData(Blank, 1, 0, 30, Noon),
     FormData(Long101, 1, 0, 30, Noon),
     FormData(Me, 1, 0, 30, None)}

FormEditData ==
    {FormData(PaddedME, -2, 24, 0, NoonPlus1),
     FormData(Me, 0, 0, 30, Noon),
     FormData(Me, 1, 24, 1, Noon),
     FormData(Me, 1, 0, 30, NextNoon),
     FormData(Blank, 1, 0, 30, Noon),
     FormData(Long101, 1, 0, 30, Noon)}

FormLog ==
    \E data \in FormValid \cup FormInvalid, is_ajax \in BOOLEAN :
        /\ is_valid(data, clock) => nextId <= MaxFormActs
        /\ is_ajax => data \in {FormData(Me, 1, 0, 30, Noon), FormData(Me, 0, 0, 30, Noon)}
        /\ log_activity_view("u1", "POST", is_ajax, data)

FormEdit ==
    \E pk \in 1..MaxFormActs, data \in FormEditData :
        edit_activity_view("u1", pk, "POST", data)

FormTick == Tick({NoonPlus1})

NextForm == FormLog \/ FormEdit \/ FormTick

SpecForm == Init /\ [][NextForm]_vars

\* C6: every stored activity has an energy level in {-2, -1, 1, 2}, a duration
\* from 1 to 1440 minutes, a name that is not empty after trimming and has at
\* most 100 characters, and an activity_date not later than the clock at the
\* moment the activity was written (its updated_at).
C6_StoredActivitiesValid ==
    \A a \in store :
        /\ a.energy_level \in {-2, -1, 1, 2}
        /\ 1 <= a.duration /\ a.duration <= 1440
        /\ Trimmed(a.name) # <<>>
        /\ Len(a.name) <= 100
        /\ a.activity_date <= a.updated_at

\* An activity with a name of 100 characters and an activity_date equal to the
\* clock when it was written, beside an edited one of 1440 minutes.
C6_Witness ==
    /\ \E a \in store : Len(a.name) = 100 /\ a.activity_date = a.updated_at
    /\ \E a \in store : /\ a.duration = 1440
                        /\ a.updated_at > a.created_at
                        /\ a.activity_date = a.updated_at

\* What the claim calls a submission that fails validation at time now
FailsValidation(data, now) ==
    \/ data.energy_level \notin {-2, -1, 1, 2}
    \/ 60 * data.duration_hours + data.duration_minutes < 1
    \/ 60 * data.duration_hours + data.duration_minutes > 1440
    \/ data.activity_date > now
    \/ Trimmed(data.name) = <<>>

\* C7: a log submission, or an edit submission for an activity of the user,
\* that fails validation is answered by a report of errors and leaves the store
\* as it was.
C7_InvalidSubmissionWritesNothing ==
    [][(/\ request'.view \in {"log_activity", "edit_activity"}
        /\ request'.method = "POST"
        /\ FailsValidation(request'.data, clock)
        /\ request'.view = "edit_activity"
             => \E a \in store : a.id = request'.pk /\ a.user = request'.user)
        => (/\ store' = store
            /\ ~response'.success
            /\ response'.errors # {})]_vars

\* An edit with a date in the future was answered with an error on the date.
C7_Witness ==
    /\ request.view = "edit_activity"
    /\ request.data.activity_date > clock
    /\ response.status = 200
    /\ response.errors = {"activity_date"}

(***************************************************************************)
(* SpecIso: two users write, and look names up, ask for suggestions and    *)
(* page through their history                                              *)
(***************************************************************************)
MaxIsoActs == 3

IsoLookupNames == {mE, <<" ", "M", "e">>, Blank}

IsoSearchTerms == {<<"e">>, <<"M">>, Blank}

\* energy, q, view and page of a history request
IsoHistoryQueries ==
    {<< <<>>, <<>>, <<"day">>, <<>> >>,
     << <<"1">>, <<>>, <<"week">>, <<"2">> >>,
     << <<"-", "2">>, <<"E">>, <<"month">>, <<"1">> >>,
     << <<"x">>, <<"m">>, <<>>, <<"0">> >>}

IsoLog ==
    \E user \in Users, name \in {Me, me} :
        /\ nextId <= MaxIsoActs
        /\ log_activity_view(user, "POST", FALSE, ValidData(name))

IsoEdit ==
    \E user \in Users, pk \in 1..MaxIsoActs :
        edit_activity_view(user, pk, "POST", FormData(ME, -2, 1, 0, Noon))

IsoDelete ==
    \E user \in Users, pk \in 1..MaxIsoActs :
        delete_activity_view(user, pk, "POST")

IsoCanonicalize ==
    \E user \in Users, name_input \in IsoLookupNames : canonicalize(user, name_input)

IsoSuggest ==
    \E user \in Users, q \in IsoSearchTerms : autocomplete_activities_view(user, q)

IsoHistory ==
    \E user \in Users, query \in IsoHistoryQueries :
        activity_history_view(user, query[1], query[2], query[3], query[4])

NextIso == IsoLog \/ IsoEdit \/ IsoDelete \/ IsoCanonicalize \/ IsoSuggest \/ IsoHistory

SpecIso == Init /\ [][NextIso]_vars

\* The activities of the store that belong to the user of the request
Mine == {a \in store : a.user = request.user}

\* C1: what canonicalize, the suggestions and the history give a user is
\* computed from that user's activities alone: it is what the store without
\* the other users' activities gives, every name and activity returned is one
\* of the user's, and every count counts the user's activities only.
C1_OwnerIsolation ==
    /\ request.view = "canonicalize" =>
          /\ response.name \in get_canonical_activity_name(Mine, request.user, request.name)
          /\ get_canonical_activity_name(store, request.user, request.name)
               = get_canonical_activity_name(Mine, request.user, request.name)
          /\ \/ response.name = Trimmed(request.name)
             \/ \E a \in Mine : a.name = response.name
    /\ request.view = "autocomplete_activities" =>
          /\ response.suggestions \in suggestions(Mine, request.user, request.q)
          /\ suggestions(store, request.user, request.q)
               = suggestions(Mine, request.user, request.q)
          /\ \A i \in 1..Len(response.suggestions) :
                LET row == response.suggestions[i]
                IN  /\ row.count > 0
                    /\ row.count = Cardinality({a \in Mine : a.name = row.name})
    /\ request.view = "activity_history" =>
          /\ response \in history_context(Mine, request.user, request.energy, request.q,
                                          request.window, request.page, clock)
          /\ history_context(store, request.user, request.energy, request.q,
                             request.window, request.page, clock)
               = history_context(Mine, request.user, request.energy, request.q,
                                 request.window, request.page, clock)
          /\ \A i \in 1..Len(response.object_list) : response.object_list[i] \in Mine
          /\ response.count <= Cardinality(Mine)

\* A user with one activity gets a suggestion counting one, while the other
\* user has two activities of a name that matches the search term too.
C1_Witness ==
    /\ request.view = "autocomplete_activities"
    /\ Len(response.suggestions) = 1
    /\ response.suggestions[1].count = 1
    /\ Cardinality({a \in store : a.user # request.user /\ icontains(a.name, strip(request.q))}) = 2

\* A history page of one activity while the other user has two activities
C1_WitnessHistory ==
    /\ request.view = "activity_history"
    /\ Len(response.object_list) = 1
    /\ Cardinality({a \in store : a.user # request.user}) = 2

(***************************************************************************)
(* SpecTop: activities of a few names and of both signs of energy, logged  *)
(* on top of three older ones, and the dashboard's two lists of names      *)
(***************************************************************************)
MaxTopLogs == 2

NameM == <<"M">>

NameE == <<"E">>

NameT == <<"T">>

NameX == <<"x">>

\* Three activities logged the day before: M drains, E and T drain a little.
InitTop ==
    /\ store = {[LoggedEarlier(1, Noon, Noon) EXCEPT !.name = NameM, !.energy_level = -2],
                [LoggedEarlier(2, Noon, Noon) EXCEPT !.name = NameE, !.energy_level = -1],
                [LoggedEarlier(3, Noon, Noon) EXCEPT !.name = NameT, !.energy_level = -1]}
    /\ nextId = 4
    /\ clock = NextNoon
    /\ request = NoRequest
    /\ response = NoResponse
    /\ SignedIn

TopLog ==
    \E user \in Users, name \in {NameM, NameX}, energy_level \in {-2, -1, 2} :
        /\ nextId <= 3 + MaxTopLogs
        /\ user = "u2" => name = NameM /\ energy_level = -2
        /\ log_activity_view(user, "POST", FALSE,
                             FormData(name, energy_level, 0, 30, NextNoon))

TopDashboard == \E user \in Users : dashboard_view(user)

NextTop == TopLog \/ TopDashboard

SpecTop == InitTop /\ [][NextTop]_vars

\* The sum of the energy levels of the activities of S
EnergySum(S) ==
    2 * Cardinality({a \in S : a.energy_level = 2})
      + Cardinality({a \in S : a.energy_level = 1})
      - Cardinality({a \in S : a.energy_level = -1})
      - 2 * Cardinality({a \in S : a.energy_level = -2})

\* The activities of S with the name
Named(S, name) == {a \in S : a.name = name}

\* mean(A) < mean(B) for two non-empty sets of activities
MeanLess(A, B) == EnergySum(A) * Cardinality(B) < EnergySum(B) * Cardinality(A)

\* rows lists, by rising mean if sign is -1 and by falling mean if sign is 1,
\* the at most 3 first of the names of pool that are eligible, each with the
\* mean and the count of all the activities of pool that have the name.
IsTopList(rows, pool, eligible, sign) ==
    LET names == {n \in {a.name : a \in pool} : eligible[n]}
        listed == {rows[i].name : i \in 1..Len(rows)}
        Before(A, B) == IF sign < 0 THEN MeanLess(A, B) ELSE MeanLess(B, A)
    IN  /\ Len(rows) = (IF Cardinality(names) < 3 THEN Cardinality(names) ELSE 3)
        /\ listed \subseteq names
        /\ Cardinality(listed) = Len(rows)
        /\ \A i \in 1..Len(rows) :
              LET group == Named(pool, rows[i].name)
              IN  /\ rows[i].count = Cardinality(group)
                  /\ rows[i].avg_energy[2] > 0
                  /\ rows[i].avg_energy[1] * Cardinality(group)
                       = EnergySum(group) * rows[i].avg_energy[2]
        /\ \A i, j \in 1..Len(rows) :
              i < j => ~Before(Named(pool, rows[j].name), Named(pool, rows[i].name))
        /\ \A n \in names \ listed : \A m \in listed :
              ~Before(Named(pool, n), Named(pool, m))

\* C11 as stated: the two lists group all the activities of the user by name
\* and keep the names whose mean over all their activities is negative
\* (positive), with that mean and the count of all their activities.
C11_GroupsOfAllActivities ==
    request.view = "dashboard" =>
        /\ IsTopList(response.draining_activities, Mine,
                     [n \in {a.name : a \in Mine} |-> EnergySum(Named(Mine, n)) < 0], -1)
        /\ IsTopList(response.energizing_activities, Mine,
                     [n \in {a.name : a \in Mine} |-> EnergySum(Named(Mine, n)) > 0], 1)

\* C11: top_draining groups the user's activities of negative energy, of every
\* day, by exact name and lists the at most 3 names of lowest mean by rising
\* mean; top_energizing does the same with the activities of positive energy,
\* highest mean first.  The mean and the count of a name cover its activities
\* of that sign only.
C11_TopListsBySign ==
    request.view = "dashboard" =>
        LET draining == {a \in Mine : a.energy_level < 0}
            energizing == {a \in Mine : a.energy_level > 0}
        IN  /\ IsTopList(response.draining_activities, draining,
                         [n \in {a.name : a \in draining} |-> TRUE], -1)
            /\ IsTopList(response.energizing_activities, energizing,
                         [n \in {a.name : a \in energizing} |-> TRUE], 1)

\* Four names drain, one of them only on the day before and one of them with an
\* energizing activity too; the list has three of them.
C11_Witness ==
    /\ request.view = "dashboard"
    /\ Len(response.draining_activities) = 3
    /\ Cardinality({a.name : a \in {b \in Mine : b.energy_level < 0}}) = 4
    /\ \E a \in Mine : a.energy_level < 0 /\ DateOf(a.activity_date) # DateOf(clock)
                       /\ \A b \in Named(Mine, a.name) : b = a
    /\ \E a, b \in Mine : a.name = b.name /\ a.energy_level < 0 /\ b.energy_level > 0

(***************************************************************************)
(* SpecWeek: activities logged over a week, and the dashboard's weekly     *)
(* data at half past noon of the seventh day                               *)
(***************************************************************************)
MaxWeekLogs == 3

OneOClock == Noon + SecondsPerHour

SixDaysLater == 6 * SecondsPerDay + Noon + 1800

WeekLog ==
    \E user \in Users, energy_level \in {-1, 2}, activity_date \in {Noon, clock} :
        /\ nextId <= MaxWeekLogs
        /\ user = "u2" => energy_level = 2 /\ activity_date = clock
        /\ log_activity_view(user, "POST", FALSE, FormData(Me, energy_level, 0, 30, activity_date))

WeekTick == Tick({OneOClock, NextNoon, SixDaysLater})

WeekDashboard == \E user \in Users : dashboard_view(user)

NextWeek == WeekLog \/ WeekTick \/ WeekDashboard

SpecWeek == Init /\ [][NextWeek]_vars

\* The activities of the user of the request that occurred on the calendar day
OnDay(day) == {a \in Mine : a.activity_date \div SecondsPerDay = day}

\* C12 as stated: weekly_data is ordered by date, has entries only for the 7
\* calendar days that end with the current day, and for each of these days on
\* which the user has an activity it has the day's entry, with the count and
\* the mean energy level of all the user's activities of that day.
C12_WeeklyCoversWholeDays ==
    request.view = "dashboard" =>
        LET weekly == response.weekly_data
            today == clock \div SecondsPerDay
        IN  /\ \A i, j \in 1..Len(weekly) : i < j => weekly[i].date < weekly[j].date
            /\ \A i \in 1..Len(weekly) :
                  /\ weekly[i].date \in (today - 6)..today
                  /\ weekly[i].count = Cardinality(OnDay(weekly[i].date))
                  /\ weekly[i].avg_energy[2] > 0
                  /\ weekly[i].avg_energy[1] * weekly[i].count
                       = EnergySum(OnDay(weekly[i].date)) * weekly[i].avg_energy[2]
            /\ \A day \in (today - 6)..today :
                  OnDay(day) # {} => \E i \in 1..Len(weekly) : weekly[i].date = day

(***************************************************************************)
(* The dashboard's averages by hour, under SpecDash                        *)
(***************************************************************************)
\* The activities of the user of the request that occurred in the hour of the
\* current day
InHourToday(hour) ==
    {a \in Mine : /\ a.activity_date \div SecondsPerDay = clock \div SecondsPerDay
                  /\ (a.activity_date % SecondsPerDay) \div 3600 = hour}

\* C13: hourly_avg has one entry for each hour 0..23; the entry is None exactly
\* when the user has no activity of the current day in that hour, and otherwise
\* is the mean energy level of the user's activities of the current day in that
\* hour.
C13_HourlyAvg ==
    request.view = "dashboard" =>
        /\ DOMAIN response.hourly_avg = 0..23
        /\ \A hour \in 0..23 :
              LET entry == response.hourly_avg[hour]
                  acts == InHourToday(hour)
              IN  /\ entry = <<>> <=> acts = {}
                  /\ acts # {} =>
                        /\ Len(entry) = 1
                        /\ entry[1][2] > 0
                        /\ entry[1][1] * Cardinality(acts) = EnergySum(acts) * entry[1][2]

\* Three activities in the hour from 12 give the mean 0, which is reported as
\* a number, while the hour from 11 is empty.
C13_Witness ==
    /\ request.view = "dashboard"
    /\ Cardinality(InHourToday(12)) = 3
    /\ response.hourly_avg[12] = << <<0, 1>> >>
    /\ response.hourly_avg[11] = <<>>

(***************************************************************************)
(* SpecEmpty: activities logged on one day, and the homepage and the       *)
(* dashboard on that day and on the next                                   *)
(***************************************************************************)
MaxEmptyLogs == 3

EmptyLog ==
    \E user \in Users, energy_level \in {-1, 2} :
        /\ nextId <= MaxEmptyLogs
        /\ log_activity_view(user, "POST", FALSE, FormData(Me, energy_level, 0, 30, clock))

EmptyTick == Tick({NextNoon})

EmptyHomepage == \E user \in Users : homepage_view(user)

EmptyDashboard == \E user \in Users : dashboard_view(user)

NextEmpty == EmptyLog \/ EmptyTick \/ EmptyHomepage \/ EmptyDashboard

SpecEmpty == Init /\ [][NextEmpty]_vars

\* The user of the request has no activity that occurred on the current day.
NothingToday ==
    \A a \in Mine : a.activity_date \div SecondsPerDay # clock \div SecondsPerDay

\* C14: for a user without activities on the current day the dashboard answers
\* with today_count 0, today_avg 0, None for every hour of hourly_avg, 0 for
\* each of the five categories of hours_per_category and no recent
\* activities; the homepage answers with today_avg None, activity_count 0 and
\* no recent activities.
C14_EmptyDayDegrades ==
    /\ (request.view = "dashboard" /\ NothingToday) =>
          /\ response.status = 200
          /\ response.today_count = 0
          /\ response.today_avg = 0
          /\ response.hourly_avg = [hour \in 0..23 |-> <<>>]
          /\ response.hours_per_category = [category \in {-2, -1, 0, 1, 2} |-> 0]
          /\ response.recent_activities = <<>>
    /\ (request.view = "homepage" /\ NothingToday) =>
          /\ response.status = 200
          /\ response.today_avg = <<>>
          /\ response.activity_count = 0
          /\ response.recent_activities = <<>>

\* The dashboard of a user whose two activities are of the day before, while
\* the other user has an activity of the current day
C14_Witness ==
    /\ request.view = "dashboard"
    /\ NothingToday
    /\ Cardinality(Mine) = 2
    /\ response.today_count = 0
    /\ \E a \in store : a.user # request.user /\ a.activity_date = clock

\* The homepage of a user whose two activities are of the day before
C14_WitnessHomepage ==
    /\ request.view = "homepage"
    /\ NothingToday
    /\ Cardinality(Mine) = 2
    /\ response.activity_count = 0

(***************************************************************************)
(* SpecSuggest: a user with five names, more activities logged and renamed,*)
(* and requests for suggestions                                            *)
(***************************************************************************)
MaxSuggestActs == 2

NameTe == <<"T", "e">>

NameXe == <<"x", "e">>

NameEx == <<"e", "x">>

NameEt == <<"e", "t">>

\* One activity logged earlier under the name
LoggedAs(id, name) == [LoggedEarlier(id, Noon, Noon) EXCEPT !.name = name]

InitSuggest ==
    /\ store = {LoggedAs(1, NameTe), LoggedAs(2, NameTe), LoggedAs(3, NameXe),
                LoggedAs(4, NameEx), LoggedAs(5, NameEt), LoggedAs(6, Me),
                LoggedAs(7, Me)}
    /\ nextId = 8
    /\ clock = NextNoon
    /\ request = NoRequest
    /\ response = NoResponse
    /\ SignedIn

SuggestLog ==
    \E user \in Users, name \in {NameE, <<"m", "e">>, NameEx} :
        /\ nextId <= 7 + MaxSuggestActs
        /\ user = "u2" => name = NameEx
        /\ log_activity_view(user, "POST", FALSE, ValidData(name))

SuggestEdit ==
    \E pk \in {7, 8}, name \in {ME, NameEx} :
        edit_activity_view("u1", pk, "POST", ValidData(name))

SuggestQuery ==
    \E user \in Users, q \in {<<"e">>, <<" ", "E", " ">>, <<"X">>, Blank, Empty} :
        autocomplete_activities_view(user, q)

NextSuggest == SuggestLog \/ SuggestEdit \/ SuggestQuery

SpecSuggest == InitSuggest /\ [][NextSuggest]_vars

\* t occurs in s, the case of letters ignored
ContainsIgnoringCase(s, t) ==
    \E k \in 0..(Len(s) - Len(t)) :
        \A i \in 1..Len(t) : LowerChar(s[k + i]) = LowerChar(t[i])

\* s comes before t in ascending order of names
NameAscending(s, t) ==
    \/ Len(s) < Len(t) /\ \A i \in 1..Len(s) : s[i] = t[i]
    \/ \E i \in 1..Min({Len(s), Len(t)}) :
          /\ \A j \in 1..(i - 1) : s[j] = t[j]
          /\ CharCode(s[i]) < CharCode(t[i])

\* C15: for a q that is not empty after trimming the suggestions are the first
\* 5 (or all, if fewer) of the exact names of the user's activities whose name
\* contains q, case ignored, each with the count of these activities, by
\* falling count and, among equal counts, by ascending name; no name left out
\* ranks before a name that is listed.  For an empty or blank q there is no
\* suggestion.
C15_SuggestRanking ==
    request.view = "autocomplete_activities" =>
        LET term == Trimmed(request.q)
            matches == {a \in Mine : ContainsIgnoringCase(a.name, term)}
            names == {a.name : a \in matches}
            Count(n) == Cardinality({a \in matches : a.name = n})
            RanksBefore(n, m) ==
                \/ Count(n) > Count(m)
                \/ Count(n) = Count(m) /\ NameAscending(n, m)
            rows == response.suggestions
            listed == {rows[i].name : i \in 1..Len(rows)}
        IN  IF term = <<>> THEN rows = <<>>
            ELSE /\ Len(rows) = (IF Cardinality(names) < 5 THEN Cardinality(names) ELSE 5)
                 /\ \A i \in 1..Len(rows) :
                       rows[i].name \in names /\ rows[i].count = Count(rows[i].name)
                 /\ \A i, j \in 1..Len(rows) :
                       i < j => RanksBefore(rows[i].name, rows[j].name)
                 /\ \A n \in names \ listed : \A m \in listed : RanksBefore(m, n)

\* Seven names of the user contain the term; five are suggested, the first with
\* a count of 2, and two names of the same count are left out.
C15_Witness ==
    /\ request.view = "autocomplete_activities"
    /\ Len(response.suggestions) = 5
    /\ response.suggestions[1].count = 2
    /\ response.suggestions[2].count = 1
    /\ Cardinality({a.name : a \in {b \in Mine :
                       ContainsIgnoringCase(b.name, Trimmed(request.q))}}) = 7

(***************************************************************************)
(* SpecHistory: activities at the edges of the day, the week and the month *)
(* before noon of day 40, one more logged, and history requests            *)
(***************************************************************************)
MaxHistoryLogs == 1

HistoryNow == 40 * SecondsPerDay + Noon

\* An activity logged by user at the time it occurred
Occurred(id, user, name, energy_level, activity_date) ==
    new_activity(id, user, name, FormData(name, energy_level, 0, 30, activity_date),
                 activity_date)

InitHistory ==
    /\ store = {Occurred(1, "u1", Me, 1, HistoryNow - 30 * SecondsPerDay - 1),
                Occurred(2, "u1", NameTe, 1, HistoryNow - 30 * SecondsPerDay),
                Occurred(3, "u1", Me, -2, HistoryNow - 7 * SecondsPerDay - 1),
                Occurred(4, "u1", NameEx, 1, HistoryNow - 7 * SecondsPerDay),
                Occurred(5, "u1", Me, 1, HistoryNow - Noon - 1),
                Occurred(6, "u1", NameTe, -2, HistoryNow - Noon),
                Occurred(7, "u1", NameX, 1, HistoryNow - SecondsPerHour),
                Occurred(8, "u2", Me, 1, HistoryNow - SecondsPerHour)}
    /\ nextId = 9
    /\ clock = HistoryNow
    /\ request = NoRequest
    /\ response = NoResponse
    /\ SignedIn

HistoryLog ==
    \E user \in Users, name \in {Me, NameX}, energy_level \in {1, -2} :
        /\ nextId <= 8 + MaxHistoryLogs
        /\ log_activity_view(user, "POST", FALSE,
                             FormData(name, energy_level, 0, 30, HistoryNow))

HistoryQuery ==
    \E user \in Users,
       energy \in {<<>>, <<"1">>, <<"-", "2">>, <<"0">>, <<"x">>},
       q \in {<<>>, <<" ", "E", " ">>, <<"m">>},
       view \in {<<>>, <<"day">>, <<"week">>, <<"month">>, <<"year">>} :
        activity_history_view(user, energy, q, view, <<>>)

NextHistory == HistoryLog \/ HistoryQuery

SpecHistory == InitHistory /\ [][NextHistory]_vars

\* The decimal digits
Digits == <<"0", "1", "2", "3", "4", "5", "6", "7", "8", "9">>

\* The integers from -9 to 9 that the text writes, with or without a sign,
\* spaces around it ignored
AsInteger(text) ==
    {n \in -9..9 :
        \/ n >= 0 /\ Trimmed(text) \in {<<Digits[n + 1]>>, <<"+", Digits[n + 1]>>}
        \/ n <= 0 /\ Trimmed(text) = <<"-", Digits[1 - n]>>}

\* The start of the window of a history request at time now
WindowStart(window, now) ==
    IF window \in {<<>>, <<"day">>} THEN now - (now % SecondsPerDay)
    ELSE IF window = <<"week">> THEN now - 7 * SecondsPerDay
    ELSE now - 30 * SecondsPerDay

\* The activities of the user of the request that pass every filter of the
\* request
Wanted ==
    {a \in Mine :
        /\ a.activity_date >= WindowStart(request.window, clock)
        /\ \A n \in AsInteger(request.energy) : a.energy_level = n
        /\ Trimmed(request.q) # <<>> => ContainsIgnoringCase(a.name, Trimmed(request.q))}

\* C16: a history request for the window day, week or month, or without a
\* window, returns exactly the user's activities that occurred at or after the
\* start of the window, have the energy level of the request if that is an
\* integer, and contain the trimmed text in their name, case ignored, if it is
\* not empty; an energy that is not an integer filters nothing.
C16_HistoryFilters ==
    (/\ request.view = "activity_history"
     /\ request.window \in {<<>>, <<"day">>, <<"week">>, <<"month">>}) =>
        /\ response.status = 200
        /\ {response.object_list[i] : i \in 1..Len(response.object_list)} = Wanted
        /\ Len(response.object_list) = Cardinality(Wanted)
        /\ response.count = Cardinality(Wanted)

\* The energy, the text and the week are all given; two activities pass, one
\* of them exactly 7 days old, and
\* for each filter some activity of the user fails that filter alone.
C16_Witness ==
    /\ request.view = "activity_history"
    /\ request.energy = <<"1">>
    /\ request.q = <<" ", "E", " ">>
    /\ request.window = <<"week">>
    /\ Len(response.object_list) = 2
    /\ response.object_list[2].activity_date = clock - 7 * SecondsPerDay
    /\ \E a \in Mine : a.energy_level # 1 /\ a.activity_date >= clock - 7 * SecondsPerDay
                       /\ ContainsIgnoringCase(a.name, <<"e">>)
    /\ \E a \in Mine : a.energy_level = 1 /\ a.activity_date >= clock - 7 * SecondsPerDay
                       /\ ~ContainsIgnoringCase(a.name, <<"e">>)
    /\ \E a \in Mine : a.energy_level = 1 /\ a.activity_date < clock - 7 * SecondsPerDay
                       /\ ContainsIgnoringCase(a.name, <<"e">>)

\* An energy that is not a number, and no window: the activities of the day
C16_WitnessNotANumber ==
    /\ request.view = "activity_history"
    /\ request.energy = <<"x">>
    /\ request.window = <<>>
    /\ request.q = <<>>
    /\ Len(response.object_list) = 2
    /\ response.energy_filter = <<>>

(***************************************************************************)
(* The order of a history page, under SpecIso, where activities of one     *)
(* user have the same activity_date                                        *)
(***************************************************************************)
\* C17 as stated: the activities of a history page come by falling
\* activity_date and, among those of equal activity_date, by falling id.
C17_HistoryOrderByDateThenId ==
    request.view = "activity_history" =>
        \A i, j \in 1..Len(response.object_list) :
            i < j =>
                LET a == response.object_list[i]
                    b == response.object_list[j]
                IN  \/ a.activity_date > b.activity_date
                    \/ a.activity_date = b.activity_date /\ a.id > b.id

(***************************************************************************)
(* SpecPages: a user with a page less one of activities of the day, two    *)
(* more logged, and history requests for several pages                     *)
(***************************************************************************)
MaxPagesLogs == 2

\* The activities the user logged earlier in the day, a minute apart: one
\* less than a page
BaselineCount == PageSize - 1

InitPages ==
    /\ store = {Occurred(id, "u1", Me, 1, NextNoon - 60 * id) : id \in 1..BaselineCount}
    /\ nextId = BaselineCount + 1
    /\ clock = NextNoon
    /\ request = NoRequest
    /\ response = NoResponse
    /\ SignedIn

PagesLog ==
    \E user \in Users, name \in {Me, NameX} :
        /\ nextId <= BaselineCount + MaxPagesLogs
        /\ user = "u2" => name = Me
        /\ log_activity_view(user, "POST", FALSE, FormData(name, 1, 0, 30, NextNoon))

PagesQuery ==
    \E user \in Users, q \in {<<>>, <<"x">>},
       page \in {<<>>, <<"1">>, <<"2">>, <<"3">>, <<"9">>, <<"0">>, <<"-", "1">>, <<"x">>} :
        activity_history_view(user, <<>>, q, <<>>, page)

NextPages == PagesLog \/ PagesQuery

SpecPages == InitPages /\ [][NextPages]_vars

\* The number of pages of 20 for a total of items, 1 for none
PageCount(total) == IF total = 0 THEN 1 ELSE (total + 19) \div 20

\* The set of the activities of the page of the response
OnPage == {response.object_list[i] : i \in 1..Len(response.object_list)}

\* The page of the response lists the activities by falling activity_date.
PageIsOrdered ==
    \A i, j \in 1..Len(response.object_list) :
        i < j => response.object_list[i].activity_date >= response.object_list[j].activity_date

\* The page of the response is the last page of the wanted activities.
IsLastPage ==
    /\ response.number = PageCount(Cardinality(Wanted))
    /\ Len(response.object_list) = Cardinality(Wanted) - 20 * (PageCount(Cardinality(Wanted)) - 1)
    /\ Cardinality(OnPage) = Len(response.object_list)
    /\ OnPage \subseteq Wanted
    /\ PageIsOrdered
    /\ \A a \in Wanted \ OnPage : \A b \in OnPage : a.activity_date >= b.activity_date

\* The page of the response is the first page of the wanted activities.
IsFirstPage ==
    /\ response.number = 1
    /\ Len(response.object_list)
         = (IF Cardinality(Wanted) < 20 THEN Cardinality(Wanted) ELSE 20)
    /\ Cardinality(OnPage) = Len(response.object_list)
    /\ OnPage \subseteq Wanted
    /\ PageIsOrdered
    /\ \A a \in Wanted \ OnPage : \A b \in OnPage : a.activity_date <= b.activity_date

\* C18: a history page has at most 20 activities, the total is the number of
\* the activities that pass the filters, the number of pages is the total
\* divided by 20 and rounded up, 1 for a total of 0, and a page number beyond
\* the last page gets the last page.
C18_Pagination ==
    request.view = "activity_history" =>
        /\ response.status = 200
        /\ Len(response.object_list) <= 20
        /\ response.count = Cardinality(Wanted)
        /\ response.num_pages = PageCount(Cardinality(Wanted))
        /\ \A n \in AsInteger(request.page) :
              n > PageCount(Cardinality(Wanted)) => IsLastPage

\* Page 3 of 2 is asked for: the second page, with the one oldest activity of 21
C18_Witness ==
    /\ request.view = "activity_history"
    /\ request.page = <<"3">>
    /\ response.count = 21
    /\ response.num_pages = 2
    /\ Len(response.object_list) = 1
    /\ response.object_list[1].id = BaselineCount

\* C19 as stated: a history request for page 0 or for a negative page gets the
\* first page.
C19_PageBelowOneIsFirstPage ==
    request.view = "activity_history" =>
        \A n \in AsInteger(request.page) : n < 1 => IsFirstPage

(***************************************************************************)
(* The date of a submission against the clock, under SpecForm              *)
(***************************************************************************)
\* C20 as stated: a log submission with an activity_date later than now gets
\* an error on the date; one with an activity_date at or before now, or
\* without an activity_date, gets no error on the date, and when it is stored
\* the activity has the submitted activity_date, or now where none was
\* submitted.
C20_DateAgainstClock ==
    (request.view = "log_activity" /\ request.method = "POST") =>
        LET submitted == request.data.activity_date
        IN  IF submitted # None /\ submitted > clock
            THEN ~response.success /\ "activity_date" \in response.errors
            ELSE /\ "activity_date" \notin response.errors
                 /\ response.success =>
                       \E a \in store :
                           /\ a.id = nextId - 1
                           /\ a.activity_date = (IF submitted = None THEN clock ELSE submitted)

(***************************************************************************)
(* SpecDur: durations at and around the limits, logged, edited, and        *)
(* submitted again as the edit form shows them                             *)
(***************************************************************************)
MaxDurActs == 2

\* Hours and minutes of the submissions
DurInputs ==
    {<<2, 30>>, <<0, 15>>, <<0, 0>>, <<0, 1>>, <<0, 59>>, <<1, 0>>,
     <<23, 59>>, <<24, 0>>, <<24, 1>>, <<24, 59>>}

DurLog ==
    \E hm \in DurInputs :
        /\ is_valid(FormData(Me, 1, hm[1], hm[2], Noon), clock) => nextId <= MaxDurActs
        /\ log_activity_view("u1", "POST", FALSE, FormData(Me, 1, hm[1], hm[2], Noon))

DurEdit ==
    \E pk \in 1..MaxDurActs, hm \in DurInputs :
        edit_activity_view("u1", pk, "POST", FormData(Me, 2, hm[1], hm[2], Noon))

\* The edit form of an activity, submitted with the hours and minutes it shows
DurResubmit ==
    \E activity \in store :
        edit_activity_view(activity.user, activity.id, "POST",
                           FormData(activity.name, activity.energy_level,
                                    form_initial(activity).duration_hours,
                                    form_initial(activity).duration_minutes,
                                    activity.activity_date))

NextDur == DurLog \/ DurEdit \/ DurResubmit

SpecDur == Init /\ [][NextDur]_vars

\* The activity a log or an edit request is about, once the request is answered
Written ==
    IF request.view = "log_activity"
    THEN {a \in store : a.id = nextId - 1}
    ELSE {a \in store : a.id = request.pk /\ a.user = request.user}

\* C21: a log or edit submission with hours 0..24 and minutes 0..59 succeeds
\* exactly if 60 * hours + minutes is within 1..1440, and then the stored
\* duration is 60 * hours + minutes; for every duration d in 1..1440 the edit
\* form shows d div 60 hours and d mod 60 minutes, which are valid and make up
\* d again (a fact of the form alone, evaluated in the states of the empty
\* store).
C21_DurationRoundTrip ==
    /\ (/\ request.view \in {"log_activity", "edit_activity"}
        /\ request.method = "POST"
        /\ response.status # 404
        /\ request.data.duration_hours \in 0..24
        /\ request.data.duration_minutes \in 0..59) =>
          LET minutes == 60 * request.data.duration_hours + request.data.duration_minutes
          IN  /\ response.success <=> (1 <= minutes /\ minutes <= 1440)
              /\ response.success => \E a \in Written : a.duration = minutes
    /\ store = {} => \A d \in 1..1440 :
          LET shown == form_initial([duration |-> d])
              again == FormData(Me, 1, shown.duration_hours, shown.duration_minutes, Noon)
          IN  /\ shown.duration_hours = d \div 60
              /\ shown.duration_minutes = d % 60
              /\ is_valid(again, Noon)
              /\ total_duration(again) = d

\* An activity of 1440 minutes was edited to 15 minutes with 0 hours and 15
\* minutes, beside one of 150 minutes.
C21_Witness ==
    /\ request.view = "edit_activity"
    /\ request.data.duration_hours = 0
    /\ request.data.duration_minutes = 15
    /\ response.status = 302
    /\ \E a \in Written : a.duration = 15 /\ a.updated_at >= a.created_at
    /\ \E a \in store : a.duration = 150

(***************************************************************************)
(* SpecReads: two users write, and every view that reads is requested      *)
(***************************************************************************)
MaxReadsActs == 2

ReadsLog ==
    \E user \in Users, name \in {Me, NameX} :
        /\ nextId <= MaxReadsActs
        /\ log_activity_view(user, "POST", FALSE, ValidData(name))

ReadsEdit ==
    \E user \in Users, pk \in 1..MaxReadsActs :
        edit_activity_view(user, pk, "POST", FormData(ME, -2, 1, 0, Noon))

ReadsDelete ==
    \E user \in Users, pk \in 1..MaxReadsActs : delete_activity_view(user, pk, "POST")

ReadsCanonicalize ==
    \E user \in Users, name_input \in {mE, NameT, Blank} : canonicalize(user, name_input)

ReadsSuggest ==
    \E user \in Users, q \in {<<"e">>, Blank} : autocomplete_activities_view(user, q)

ReadsHomepage == \E user \in Users : homepage_view(user)

ReadsDashboard == \E user \in Users : dashboard_view(user)

ReadsHistory ==
    \E user \in Users, energy \in {<<>>, <<"x">>}, page \in {<<>>, <<"0">>} :
        activity_history_view(user, energy, <<"e">>, <<"week">>, page)

NextReads ==
    \/ ReadsLog \/ ReadsEdit \/ ReadsDelete
    \/ ReadsCanonicalize \/ ReadsSuggest \/ ReadsHomepage \/ ReadsDashboard \/ ReadsHistory

SpecReads == Init /\ [][NextReads]_vars

\* C22: a request to canonicalize, for suggestions, for the dashboard, the
\* homepage or the history leaves every activity of the store as it was and
\* adds none.
C22_ReadsLeaveStore ==
    [][request'.view \in {"canonicalize", "autocomplete_activities", "dashboard",
                          "homepage", "activity_history"}
         => store' = store /\ nextId' = nextId]_vars

\* A name the user has not stored was looked up, and the store still has the
\* user's one activity of another name.
C22_Witness ==
    /\ request.view = "canonicalize"
    /\ response.name = NameT
    /\ Cardinality(Mine) = 1
    /\ \A a \in Mine : a.name # NameT

(***************************************************************************)
(* SpecCasing: names in several casings logged, deleted and deleted in     *)
(* bulk, one request at a time, from the empty store                       *)
(***************************************************************************)
MaxCasingActs == 3

CasingLog ==
    \E user \in Users, name \in {Me, me, ME, PaddedME} :
        /\ nextId <= MaxCasingActs
        /\ log_activity_view(user, "POST", FALSE, ValidData(name))

CasingDelete ==
    \E user \in Users, pk \in 1..MaxCasingActs : delete_activity_view(user, pk, "POST")

CasingBulkDelete ==
    \E user \in Users, activity_ids \in {{1}, {1, 2}, {2, 3}} :
        bulk_delete_activities_view(user, "POST", activity_ids)

NextCasing == CasingLog \/ CasingDelete \/ CasingBulkDelete

SpecCasing == Init /\ [][NextCasing]_vars

\* C26: two activities of one user whose names are the same when case is
\* ignored have the same exact name.
C26_OneCasingPerName ==
    \A a, b \in store :
        (a.user = b.user /\ SameIgnoringCase(a.name, b.name)) => a.name = b.name

\* A user logged a name in a casing other than the stored one and has two
\* activities of the stored casing, after the first activity was deleted; the
\* other user has the name in another casing.
C26_Witness ==
    /\ request.view = "log_activity"
    /\ response.success
    /\ Trimmed(request.data.name) # response.name
    /\ Cardinality({a \in store : a.user = request.user /\ a.name = response.name}) = 2
    /\ \E a \in store : a.user # request.user /\ a.name # response.name

(***************************************************************************)
(* SpecRename: activities logged and then renamed by edits                 *)
(***************************************************************************)
MaxRenameActs == 3

RenameLog ==
    \E user \in Users, name \in {Me, NameX} :
        /\ nextId <= MaxRenameActs
        /\ log_activity_view(user, "POST", FALSE, ValidData(name))

RenameEdit ==
    \E user \in Users, pk \in 1..MaxRenameActs,
       name \in {me, PaddedME, Blank} :
        edit_activity_view(user, pk, "POST", FormData(name, -1, 1, 0, Noon))

NextRename == RenameLog \/ RenameEdit

SpecRename == Init /\ [][NextRename]_vars

\* C30: a successful edit stores the submitted name, trimmed, in the casing
\* submitted, whatever other names the user has, and leaves every other
\* activity as it was.
C30_EditKeepsSubmittedName ==
    [][(request'.view = "edit_activity" /\ response'.status = 302) =>
          /\ \E a \in store' : /\ a.id = request'.pk
                               /\ a.name = Trimmed(request'.data.name)
          /\ {a \in store' : a.id # request'.pk} = {a \in store : a.id # request'.pk}
          /\ Cardinality(store') = Cardinality(store)]_vars

\* An activity was renamed to ME, submitted with spaces around it, while the
\* user has two other activities named Me.
C30_Witness ==
    /\ request.view = "edit_activity"
    /\ response.status = 302
    /\ request.data.name = PaddedME
    /\ \E a \in store : a.id = request.pk /\ a.name = ME
    /\ Cardinality({a \in store : a.user = request.user /\ a.name = Me}) = 2

(***************************************************************************)
(* The names of the dashboard's two lists, under SpecTop                   *)
(***************************************************************************)
\* The names that are in both lists of the dashboard
InBothLists ==
    {response.draining_activities[i].name : i \in 1..Len(response.draining_activities)}
    \cap {response.energizing_activities[i].name :
            i \in 1..Len(response.energizing_activities)}

\* C29 as stated: no name is in both lists of the dashboard.
C29_ListsDisjoint == request.view = "dashboard" => InBothLists = {}

\* C29: a name is in both lists of the dashboard only if the user has an
\* activity of that name with a negative and one with a positive energy
\* level.
C29_InBothOnlyIfBothSigns ==
    request.view = "dashboard" =>
        \A name \in InBothLists :
            /\ \E a \in Named(Mine, name) : a.energy_level < 0
            /\ \E a \in Named(Mine, name) : a.energy_level > 0

\* A name is in both lists, and a draining name without a positive activity
\* is in the first list only.
C29_Witness ==
    /\ request.view = "dashboard"
    /\ InBothLists # {}
    /\ \E i \in 1..Len(response.draining_activities) :
          /\ response.draining_activities[i].name \notin InBothLists
          /\ \A a \in Named(Mine, response.draining_activities[i].name) : a.energy_level < 0

(***************************************************************************)
(* SpecAuth: two browsers sign up, log in and out, and ask for every page, *)
(* logged in or not; users are saved and profiles deleted outside the views*)
(***************************************************************************)
MaxAuthActs == 1

InitAuth ==
    /\ store = {}
    /\ nextId = 1
    /\ clock = Noon
    /\ request = NoRequest
    /\ response = NoResponse
    /\ accounts = [user \in Users |-> NoAccount]
    /\ session = [s \in Sessions |-> AnonymousUser]
    /\ profiles = {}
    /\ pending = [r \in Requests |-> NoRequest]

AuthSignup ==
    \E s \in Sessions, username \in Users, password2 \in Passwords :
        signup_view(s, "POST", username, "p", password2)

AuthLogin ==
    \E s \in Sessions, username \in Users, password \in Passwords :
        login_view(s, "POST", username, password)

AuthLogout == \E s \in Sessions : logout_view(s)

AuthHomepage ==
    \E s \in Sessions : login_required(s, "homepage", homepage_view(request_user(s)))

AuthDashboard ==
    \E s \in Sessions : login_required(s, "dashboard", dashboard_view(request_user(s)))

AuthLog ==
    \E s \in Sessions :
        /\ nextId <= MaxAuthActs
        /\ login_required(s, "log_activity",
                          log_activity_view(request_user(s), "POST", FALSE, ValidData(Me)))

AuthAutocomplete ==
    \E s \in Sessions :
        login_required(s, "autocomplete_activities",
                       autocomplete_activities_view(request_user(s), Empty))

AuthHistory ==
    \E s \in Sessions :
        login_required(s, "activity_history",
                       activity_history_view(request_user(s), <<>>, <<>>, <<>>, <<>>))

AuthEdit ==
    \E s \in Sessions :
        login_required(s, "edit_activity",
                       edit_activity_view(request_user(s), 1, "POST", ValidData(ME)))

AuthDelete ==
    \E s \in Sessions :
        login_required(s, "delete_activity",
                       delete_activity_view(request_user(s), 1, "POST"))

AuthBulkDelete ==
    \E s \in Sessions :
        login_required(s, "bulk_delete_activities",
                       bulk_delete_activities_view(request_user(s), "POST", {1}))

AuthSettings ==
    \E s \in Sessions, method \in {"GET", "POST"}, theme \in {"dark", "blue"} :
        login_required(s, "settings", settings_view(request_user(s), method, theme, FALSE))

AuthAccount ==
    \E s \in Sessions : login_required(s, "account", account_view(request_user(s)))

AuthChangePassword ==
    \E s \in Sessions, old_password \in Passwords :
        login_required(s, "change_password",
                       change_password_view(s, "POST", old_password, "q", "q"))

AuthUserSave == \E user \in Users : user_save(user)

AuthProfileDelete == \E user \in Users : profile_delete(user)

NextAuth ==
    \/ AuthSignup \/ AuthLogin \/ AuthLogout
    \/ AuthHomepage \/ AuthDashboard \/ AuthLog \/ AuthAutocomplete \/ AuthHistory
    \/ AuthEdit \/ AuthDelete \/ AuthBulkDelete
    \/ AuthSettings \/ AuthAccount \/ AuthChangePassword
    \/ AuthUserSave \/ AuthProfileDelete

SpecAuth == InitAuth /\ [][NextAuth]_vars

ProtectedViews ==
    {"homepage", "dashboard", "log_activity", "autocomplete_activities",
     "activity_history", "edit_activity", "delete_activity", "bulk_delete_activities",
     "settings", "account", "change_password"}

\* C23: a request to a protected endpoint is answered either for the user some
\* session is logged in as, or, without such a session, by a redirect to the
\* login page that carries nothing of the activities and leaves them as they
\* were; a logout leaves its session logged out, and a session that is not
\* logged in becomes logged in only by a successful login or signup on it.
C23_LoginRequired ==
    [][/\ request'.view \in ProtectedViews =>
            IF request'.user \in Users
            THEN \E s \in Sessions : session[s] = request'.user
            ELSE /\ response' = [status |-> 302, location |-> "login"]
                 /\ store' = store
                 /\ nextId' = nextId
       /\ request'.view = "logout" => session'[request'.session] \notin Users
       /\ \A s \in Sessions :
             (session[s] \notin Users /\ session'[s] \in Users) =>
                 /\ request'.view \in {"login", "signup"}
                 /\ request'.session = s
                 /\ response'.status = 302
                 /\ response'.success]_vars

\* The edit of an activity was asked for, and answered by the redirect, from
\* a browser that is logged out, while the activity's owner is logged in in
\* the other browser.
C23_Witness ==
    /\ request.view = "edit_activity"
    /\ request.user = AnonymousUser
    /\ response = RedirectToLogin
    /\ session[request.session] = AnonymousUser
    /\ \E s \in Sessions : session[s] \in Users /\ OwnedBy(store, session[s]) # {}

\* The profiles of a user
ProfilesOf(user) == {p \in profiles : p.user = user}

\* C24: no user ever has two profiles; a user has exactly one after signing up,
\* after a save of the user and after a settings request of the user, and a
\* profile that a save or a settings page made anew is light with notifications
\* on.
C24_OneProfilePerUser ==
    [][/\ \A user \in Users : Cardinality(ProfilesOf(user)') <= 1
       /\ (request'.view = "signup" /\ response'.success) =>
              Cardinality({p \in profiles' : p.user = request'.username}) = 1
       /\ (request'.view \in {"user_save", "settings"} /\ request'.user \in Users) =>
              /\ Cardinality({p \in profiles' : p.user = request'.user}) = 1
              /\ (ProfilesOf(request'.user) = {} /\ response'.status # 302) =>
                     \A p \in profiles' :
                         p.user = request'.user => p.theme = "light" /\ p.notifications]_vars

\* A save of a user made a profile anew, light, after the user's dark one was
\* deleted.
C24_Witness ==
    /\ request.view = "user_save"
    /\ response.created
    /\ new_profile(request.user) \in profiles
    /\ \E p \in profiles : p.theme = "dark"

(***************************************************************************)
(* SpecEdits: two edit requests for one activity, served at the same time  *)
(***************************************************************************)
MaxEditsLogs == 1

EditsData == {FormData(me, -1, 1, 0, Noon), FormData(PaddedME, 2, 0, 45, NoonPlus1)}

EditsLog ==
    \E user \in Users :
        /\ nextId <= MaxEditsLogs
        /\ log_activity_view(user, "POST", FALSE, ValidData(Me))

EditsLoad ==
    \E r \in Requests, user \in Users, pk \in 1..MaxEditsLogs, data \in EditsData :
        edit_activity_load(r, user, pk, data)

EditsSave == \E r \in Requests : edit_activity_save(r)

EditsTick == Tick({NoonPlus1, NoonPlus1 + 1})

NextEdits == EditsLog \/ EditsLoad \/ EditsSave \/ EditsTick

SpecEdits == Init /\ [][NextEdits]_vars

\* C25: an edit that was loaded and validated is saved with success, whatever
\* another edit of the same activity saved in between; after the save the
\* activity has the name, energy level, duration and date of that request and
\* the owner, id and time of recording it had before.
C25_LastWriteWins ==
    [][\A r \in Requests :
          (pending[r].view = "edit_activity" /\ pending'[r] = NoRequest) =>
             /\ response'.status = 302
             /\ \E before \in store :
                   /\ before.id = pending[r].pk
                   /\ {a \in store' : a.id = pending[r].pk} =
                        {[id |-> before.id, user |-> before.user,
                          created_at |-> before.created_at,
                          name |-> Trimmed(pending[r].data.name),
                          energy_level |-> pending[r].data.energy_level,
                          duration |-> 60 * pending[r].data.duration_hours
                                       + pending[r].data.duration_minutes,
                          activity_date |-> pending[r].data.activity_date,
                          updated_at |-> clock]}]_vars

\* An edit has been saved while another edit of the same activity, with other
\* values, had loaded the activity as it was before and is still to save.
C25_WitnessFirstSaved ==
    /\ request.view = "edit_activity"
    /\ response.status = 302
    /\ \E r \in Requests :
          /\ pending[r].view = "edit_activity"
          /\ pending[r].pk = request.pk
          /\ pending[r].data # request.data
          /\ pending[r].activity \notin store

\* The second of two such edits has been saved: the activity is as the request
\* has it, not as that request had loaded it, and was updated after it was
\* recorded.
C25_Witness ==
    /\ request.view = "edit_activity"
    /\ response.status = 302
    /\ pending = [r \in Requests |-> NoRequest]
    /\ \E a \in store :
          /\ a.id = request.pk
          /\ a.name = ME
          /\ a.energy_level = 2
          /\ a.created_at = Noon
          /\ a.updated_at = NoonPlus1 + 1

(***************************************************************************)
(* SpecLogs: two log requests of one user, served at the same time, for    *)
(* names that differ in case only                                          *)
(***************************************************************************)
MaxLogsActs == 2

\* The log requests that have looked the name up and not saved yet
LogsInFlight == {r \in Requests : pending[r].view = "log_activity"}

LogsLookup ==
    \E r \in Requests, user \in Users, name \in {Me, me} :
        /\ nextId + Cardinality(LogsInFlight) <= MaxLogsActs
        /\ log_activity_lookup(r, user, ValidData(name))

LogsSave == \E r \in Requests : log_activity_save(r)

LogsDelete == \E user \in Users, pk \in 1..MaxLogsActs : delete_activity_view(user, pk, "POST")

NextLogs == LogsLookup \/ LogsSave \/ LogsDelete

SpecLogs == Init /\ [][NextLogs]_vars

\* C27: the name a log request stores is the exact name of every activity of
\* the user that has the same name when case is ignored, also when another
\* log request of the user is served at the same time.
C27_LogsAgreeOnName ==
    [][\A r \in Requests :
          (pending[r].view = "log_activity" /\ pending'[r] = NoRequest) =>
              \A a \in store' :
                  (a.user = pending[r].user /\ SameIgnoringCase(a.name, response'.name))
                      => a.name = response'.name]_vars

(***************************************************************************)
(* SpecLost: activities logged, deleted and deleted in bulk while edits of *)
(* them are being served                                                   *)
(***************************************************************************)
MaxLostActs == 2

LostLog ==
    \E user \in Users :
        /\ nextId <= MaxLostActs
        /\ log_activity_view(user, "POST", FALSE, ValidData(Me))

LostLoad ==
    \E r \in Requests, user \in Users, pk \in 1..MaxLostActs :
        edit_activity_load(r, user, pk, FormData(ME, 2, 0, 45, Noon))

LostSave == \E r \in Requests : edit_activity_save(r)

LostDelete == \E user \in Users, pk \in 1..MaxLostActs : delete_activity_view(user, pk, "POST")

LostBulkDelete ==
    \E user \in Users, activity_ids \in {{1}, {1, 2}} :
        bulk_delete_activities_view(user, "POST", activity_ids)

NextLost == LostLog \/ LostLoad \/ LostSave \/ LostDelete \/ LostBulkDelete

SpecLost == Init /\ [][NextLost]_vars

\* C28: an id that was given to an activity and has no activity any more (the
\* activity was deleted) has no activity in the next state either.
C28_DeletedStaysDeleted ==
    [][\A k \in 1..(nextId - 1) :
          (\A a \in store : a.id # k) => (\A a \in store' : a.id # k)]_vars

====
